---- MODULE Spec2Model ----
(***************************************************************************)
(* DeepFlow agent, eBPF socket tracer.                                     *)
(*                                                                         *)
(* Kernel plane : src/agent/src/ebpf/kernel/socket_trace.c                 *)
(*                src/agent/src/ebpf/kernel/include/task_struct_utils.h    *)
(* User plane   : src/agent/src/ebpf/user/symbol.c (tracer control,        *)
(*                adaptation check, reclaim)                               *)
(* Shared types : src/unnamed/part_002 (socket_info_t, trace_info_t, ...)  *)
(*                                                                         *)
(* Every probe handler runs to completion on its CPU and is one action.    *)
(* The user-space calls that read the tracer state outside the probes      *)
(* mutex (socket_tracer_start/stop) and the adaptation check are split at  *)
(* the points where another thread can interleave.                         *)
(***************************************************************************)
EXTENDS Integers, Sequences, FiniteSets, TLC

(***************************************************************************)
(* Bounds of the model                                                     *)
(***************************************************************************)
\* number of CPUs (sys_cpus_count); CPU ids are 0..NCpu-1
NCpu == 2
\* width kept for the time part of an id; the code keeps 56 bits
\* (symbol.c:1165-1166), the model keeps UidLowBits and the full 8 CPU bits
UidLowBits == 4
\* probe events explored per behaviour of the data-plane specification
MaxEvents == 3
\* probe events explored per behaviour of the relay specification
MaxRelayEvents == 6
\* probe events explored per behaviour of the whole-tracer specification
MaxCtlEvents == 2
\* seconds of uptime explored
MaxTime == 1
\* bytes a traced syscall moves
PayloadLen == 2
\* number of worker queues (thread_nr of running_socket_tracer)
WorkerNr == 2
\* conf_socket_map_max_reclaim (socket_map_max_reclaim of running_socket_tracer)
SocketMapMaxReclaim == 2
\* conf_max_trace_entries * RECLAIM_TRACE_MAP_SCALE
TraceMapMaxReclaim == 1
\* seconds of uptime and probe events or map checks explored per behaviour
\* of the reclaim specification
MaxReclaimTime == 11
MaxReclaimEvents == 3
\* events of the eviction specification
MaxEvictEvents == 3
\* the largest data version of the controller and of a request
MaxVersion == 2
\* probe events of the accounting specification
MaxAcctEvents == 4
\* records of a staging buffer and payload bytes of a record in the
\* specification of the reader's allocation
MaxAllocEvents == 2
MaxDataLen == 64
\* probe events explored per behaviour of the pipeline specification
MaxPipeEvents == 3
\* writes, perf outputs and seconds of uptime explored per behaviour of the
\* burst specification
MaxBurstEvents == 17
MaxFlushes == 2
MaxBurstTime == 3
\* probe events explored per behaviour of the queue specification
MaxQueueEvents == 3
\* probe events explored per behaviour of the TraceInfo specification
MaxLifeEvents == 4
\* probe events explored per behaviour of the Go specification
MaxGoEvents == 3
\* probe events explored per behaviour of the gating specification
MaxGateEvents == 3
\* probe events explored per behaviour of the inference specification
MaxInferEvents == 3
\* probe events explored per behaviour of the classification specification
MaxClassEvents == 2
\* probe events explored per behaviour of the syscall specification
MaxExitEvents == 4

(***************************************************************************)
(* Program constants                                                       *)
(***************************************************************************)
\* "CPU IDX: 8bit" of an id, socket_trace.c:52
UidCpuBits == 8
EVENT_BURST_NUM == 16
T_EGRESS == 0
T_INGRESS == 1
MSG_UNKNOWN == 0
MSG_REQUEST == 1
MSG_RESPONSE == 2
MSG_PRESTORE == 3
MSG_RECONFIRM == 4
MSG_CLEAR == 5
\* width of socket_info_t.msg_type
MsgTypeBits == 2
PROTO_UNKNOWN == 0
\* any inferred L7 protocol (HTTP1, DNS, MySQL, ...)
PROTO_L7 == 1
SOCKET_RECLAIM_TIMEOUT_DEF == 10
TRACE_RECLAIM_TIMEOUT_DEF == 10
NS_PER_US == 1000
MAX_PKT_BURST == 16
EVENT_TYPE_MIN == 32
EVENT_TYPE_PROC_EXEC == 32
EVENT_TYPE_PROC_EXIT == 64

CPUS == 0 .. (NCpu - 1)
UidLowSpan == 2 ^ UidLowBits
UidSpan == 2 ^ (UidLowBits + UidCpuBits)

\* threads (pid_tgid as <<tgid, pid>>) and descriptors of the traced process
Threads == {<<1, 1>>, <<1, 2>>}
Fds == {3, 4}
Tgid(t) == t[1]
\* a trace_map with an entry for every thread
TraceMapEntries == Cardinality(Threads)

TRACER_INIT == "TRACER_INIT"
TRACER_STOP == "TRACER_STOP"
TRACER_RUNNING == "TRACER_RUNNING"

VARIABLES
    \* ---- environment
    kver,               \* <<major, minor>> of the running kernel
    cpu_online,         \* [CPUS -> BOOLEAN]
    proc_kind,          \* "plain" | "go" | "nginx": what the traced process is
    uptime,             \* seconds since boot
    trace_map_max,      \* max_entries of trace_map (max_trace_entries of running_socket_tracer)
    \* ---- user plane (symbol.c)
    tracer,             \* <<>> when find_bpf_tracer() is NULL, else <<[state, adapt_success]>>
    hooks,              \* probes attached
    period_events,      \* registered, valid periodic events
    adapt_pc,           \* where the periodic thread is inside check_kern_adapt_and_state_update
    api,                \* [Callers -> call in progress / last call of a control thread]
    run_ret,            \* return value of running_socket_tracer, or "none" (not called)
    socket_map_reclaim_count,
    trace_map_reclaim_count,
    bpf_core,           \* the CO-RE object was loaded (is_core_kernel())
    queues,             \* [0 .. WorkerNr-1 -> the ring and the counters of a worker queue]
    heap,               \* the blocks the reader got from malloc, in allocation order
    reader_pc,          \* <<>>, or <<the mark the reader still owes the records it enqueued>>
    events_list,        \* the event types registered with register_event_handle
    \* ---- kernel plane (socket_trace.c)
    members_offset,     \* [CPUS -> [files, flags, copied_seq, write_seq, ready]]
    trace_uid_map,      \* [CPUS -> [socket_id, thread_trace_id]]
    trace_stats_map,    \* [CPUS -> [socket_map_count, trace_map_count]]
    socket_info_map,    \* conn_key -> socket_info_t, DOMAIN = keys present
    trace_map,          \* pid_tgid -> trace_info_t, DOMAIN = keys present
    data_buf,           \* [CPUS -> Seq(record)]: the staging buffer, events_num = Len
    socket_data,        \* perf channel: Seq of [cpu, events]
    active_read_args_map,   \* pid_tgid -> data_args_t stashed by the entry of a read syscall
    active_write_args_map,  \* pid_tgid -> data_args_t stashed by the entry of a write syscall
    in_syscall,         \* [Threads -> <<>> or <<the syscall the thread is inside>>]
    \* ---- controller (trisolaris, vtap.go)
    gvtap_info,         \* what trisolaris.GetGVTapInfo() holds: readiness, data versions, registrations
    vtap_cache,         \* <<>> when the agent has no VTapCache, else <<the agent's VTapCache>>
    sync_out,           \* <<>>, or <<the last rpc handled: its request and its response>>
    \* ---- traced process
    fd_table,           \* the descriptors of Fds the traced process holds open
    \* ---- reader memory
    layout,             \* <<>>, or <<the byte layout of the last backing allocation of the reader>>
    \* ---- history
    nev,                \* probe events handled so far
    last,               \* what the last probe handler did
    stream,             \* records in the order they were appended to a staging buffer
    created,            \* [uid, cpu] of the sessions created, in creation order
    traced              \* [Threads -> <<>> or <<the thread's latest event that reached trace_process>>]

uvars == <<tracer, hooks, period_events, adapt_pc, api, run_ret,
           socket_map_reclaim_count, bpf_core>>
kvars == <<members_offset, trace_uid_map, trace_stats_map, socket_info_map,
           trace_map, data_buf, socket_data>>
hvars == <<nev, last, stream, created, traced>>
evars == <<kver, cpu_online, proc_kind, uptime, trace_map_max>>
rvars == <<trace_map_reclaim_count, queues, heap, reader_pc, events_list>>
avars == <<active_read_args_map, active_write_args_map, in_syscall>>
svars == <<gvtap_info, vtap_cache, sync_out>>
pvars == <<fd_table>>
lvars == <<layout>>
vars == <<evars, uvars, kvars, hvars, rvars, avars, svars, pvars, lvars>>

(***************************************************************************)
(* Hash maps: a map is a function whose DOMAIN is the set of keys present  *)
(***************************************************************************)
EmptyMap == [x \in {} |-> 0]
MapPut(m, key, v) == [x \in (DOMAIN m) \cup {key} |-> IF x = key THEN v ELSE m[x]]
MapDel(m, key) == [x \in (DOMAIN m) \ {key} |-> m[x]]

\* map_update that finds room in a full map
map_update_unbounded(m, key, v, max) == MapPut(m, key, v)

\* the update of a BPF hash map of max entries: a new key finds no room in
\* a full map and the map stays as it is
map_update(m, key, v, max) ==
    IF key \in DOMAIN m \/ Cardinality(DOMAIN m) < max THEN MapPut(m, key, v) ELSE m

\* conn_key = (tgid << 32) | fd : one key per (process, descriptor)
gen_conn_key_id(tgid, fd) == <<tgid, fd>>

\* the kernel maps as one value, so that a handler is a function on it
KState == [members_offset |-> members_offset, trace_uid_map |-> trace_uid_map,
           trace_stats_map |-> trace_stats_map, socket_info_map |-> socket_info_map,
           trace_map |-> trace_map, data_buf |-> data_buf, socket_data |-> socket_data]

SetK(k) ==
    /\ members_offset' = k.members_offset
    /\ trace_uid_map' = k.trace_uid_map
    /\ trace_stats_map' = k.trace_stats_map
    /\ socket_info_map' = k.socket_info_map
    /\ trace_map' = k.trace_map
    /\ data_buf' = k.data_buf
    /\ socket_data' = k.socket_data

\* struct socket_info_t sk_info = { 0 }; born is history: the index in
\* `created` of the creation event the entry comes from (0: none)
ZeroSockInfo == [uid |-> 0, seq |-> 0, l7_proto |-> PROTO_UNKNOWN, direction |-> 0,
                 msg_type |-> 0, peer_fd |-> 0, trace_id |-> 0, update_time |-> 0,
                 prev_data |-> <<>>, prev_data_len |-> 0, need_reconfirm |-> FALSE,
                 born |-> 0]

\* history: what `last` holds before any handler has run
NoEvent == [kind |-> "none", e |-> [t |-> <<1, 1>>, fd |-> 0], cpu |-> 0, out |-> <<>>,
            engine |-> FALSE, sid |-> 0, prev |-> <<>>, state |-> "none", ready |-> 0,
            sock |-> <<>>, trace |-> <<>>]

ZeroOffset == [files |-> 0, flags |-> 0, copied_seq |-> 0, write_seq |-> 0, ready |-> 0]

\* socket_info_ptr != NULL && socket_info_ptr->uid != 0
is_socket_info_valid(sim, key) == key \in DOMAIN sim /\ sim[key].uid # 0

\* nonzero for a process the uprobe module identified as Go
get_go_version == IF proc_kind = "go" THEN 1 ELSE 0

\* comm == "nginx" in sys_exit_socket
is_nginx == proc_kind = "nginx"

(***************************************************************************)
(* delete_socket_info, socket_trace.c:81-94                                *)
(***************************************************************************)
delete_socket_info_uncounted(k, conn_key, cpu) ==
    [k EXCEPT !.socket_info_map = MapDel(@, conn_key)]
delete_socket_info(k, conn_key, cpu) ==
    IF conn_key \notin DOMAIN k.socket_info_map
    THEN k
    ELSE [k EXCEPT !.socket_info_map = MapDel(@, conn_key),
                   !.trace_stats_map[cpu].socket_map_count = @ - 1]

(***************************************************************************)
(* trace_process, socket_trace.c:531-623.                                  *)
(* e: the event [t, fd, dir, msg, ...]; socket_id: the uid of the event's  *)
(* session as data_submit computed it.  Result: the maps, the record's     *)
(* thread_trace_id and conn_info->keep_data_seq.                           *)
\* ingress_trace_id that never allocates a thread trace id
ingress_trace_id_kept(pre_trace_id, new_id) == pre_trace_id

\* socket_trace.c:593-594: an ingress event takes the id TraceInfo held for
\* a continued message, else the next id of the CPU
ingress_trace_id(pre_trace_id, new_id) ==
    IF pre_trace_id = 0 THEN new_id ELSE pre_trace_id


\* same_burst that never sees a continued message
same_burst_never(sim, conn_key, e) == FALSE

\* socket_trace.c:582-584: the event continues what the session of its
\* socket saw last, same direction and same message type
same_burst(sim, conn_key, e) ==
    /\ is_socket_info_valid(sim, conn_key)
    /\ e.dir = sim[conn_key].direction
    /\ e.msg = sim[conn_key].msg_type

(***************************************************************************)
trace_process(k, e, cpu, socket_id) ==
    LET conn_key == gen_conn_key_id(Tgid(e.t), e.fd)
        sim == k.socket_info_map
        tm == k.trace_map
        has_trace == e.t \in DOMAIN tm
        same == same_burst(sim, conn_key, e)
        pre_trace_id == IF same /\ has_trace THEN tm[e.t].thread_trace_id ELSE 0
    IN
    IF e.dir = T_INGRESS
    THEN LET new_id == (k.trace_uid_map[cpu].thread_trace_id + 1) % UidSpan
             id == ingress_trace_id(pre_trace_id, new_id)
             peer_fd == IF e.msg = MSG_REQUEST THEN e.fd
                        ELSE IF /\ e.msg = MSG_RESPONSE
                                /\ is_socket_info_valid(sim, conn_key)
                                /\ sim[conn_key].peer_fd # 0
                             THEN sim[conn_key].peer_fd
                             ELSE 0
             trace_info == [update_time |-> uptime, peer_fd |-> peer_fd,
                            thread_trace_id |-> id, socket_id |-> socket_id]
             k1 == IF pre_trace_id = 0
                   THEN [k EXCEPT !.trace_uid_map[cpu].thread_trace_id = new_id]
                   ELSE k
             k2 == [k1 EXCEPT !.trace_map = map_update(@, e.t, trace_info, trace_map_max)]
             k3 == IF has_trace THEN k2
                   ELSE [k2 EXCEPT !.trace_stats_map[cpu].trace_map_count = @ + 1]
         IN [k |-> k3, thread_trace_id |-> id, keep_data_seq |-> same]
    ELSE LET id == IF has_trace /\ socket_id # tm[e.t].socket_id
                   THEN tm[e.t].thread_trace_id
                   ELSE 0
             k1 == IF has_trace
                   THEN [k EXCEPT !.trace_stats_map[cpu].trace_map_count = @ - 1]
                   ELSE k
             k2 == [k1 EXCEPT !.trace_map = MapDel(@, e.t)]
         IN [k |-> k2, thread_trace_id |-> id, keep_data_seq |-> same]

(***************************************************************************)
(* Appending record v to the staging buffer of cpu and the burst flush,    *)
(* socket_trace.c:943-962                                                  *)
(***************************************************************************)
buffer_append(k, cpu, v) ==
    LET events == Append(k.data_buf[cpu], v)
    IN IF Len(events) = EVENT_BURST_NUM
       THEN [k EXCEPT !.socket_data = Append(@, [cpu |-> cpu, events |-> events]),
                      !.data_buf[cpu] = <<>>]
       ELSE [k EXCEPT !.data_buf[cpu] = events]

\* tick_due with the timestamp taken in the unit of the clock
tick_due_same_unit(now, timestamp) == now - timestamp > 1

\* sys_enter_getppid, line 1464, with both times in seconds:
\* (bpf_ktime_get_ns() - v->timestamp * NS_PER_US) > NS_PER_SEC in __u64; a
\* product above now makes the difference wrap to a value above every second
tick_due(now, timestamp) ==
    IF NS_PER_US * timestamp > now THEN TRUE ELSE now - NS_PER_US * timestamp > 1

(***************************************************************************)
(* sys_enter_getppid, socket_trace.c:1456-1483                             *)
(***************************************************************************)
getppid_handler(k, cpu, now) ==
    IF Len(k.data_buf[cpu]) > 0 /\ tick_due(now, k.data_buf[cpu][1].timestamp)
    THEN [k EXCEPT !.socket_data = Append(@, [cpu |-> cpu, events |-> k.data_buf[cpu]]),
                   !.data_buf[cpu] = <<>>]
    ELSE k

\* the value socket_info_t.msg_type keeps of a message type (a 2-bit field)
stored_msg_type(msg) == msg % (2 ^ MsgTypeBits)

(***************************************************************************)
(* data_submit, socket_trace.c:726-963, for an event of the syscall probes *)
(* (extra->go and extra->tls are 0 there).                                 *)
(* e = [t, fd, dir, proto, msg, copy_ok]; nborn = index the next creation  *)
(* event gets in the history.                                              *)
(* Result: k the maps, out = <<record>> or <<>>, made = <<uid>> when a     *)
(* session uid was handed out, engine = trace_process ran, sid = the       *)
(* socket_id of lines 783-789.                                             *)
(***************************************************************************)
NoResult(k) == [k |-> k, out |-> <<>>, made |-> <<>>, engine |-> FALSE, sid |-> 0]

\* lines 783-789: the uid of the event's session, or the one it would get
session_id(k, e, cpu) ==
    IF is_socket_info_valid(k.socket_info_map, gen_conn_key_id(Tgid(e.t), e.fd))
    THEN k.socket_info_map[gen_conn_key_id(Tgid(e.t), e.fd)].uid
    ELSE (k.trace_uid_map[cpu].socket_id + 1) % UidSpan

\* engine_runs that takes no notice of the Go version
engine_runs_any_process(e) ==
    /\ e.msg # MSG_PRESTORE
    /\ e.msg # MSG_RECONFIRM

\* lines 792-795: the trace engine runs unless the event only stores or
\* reconfirms, or the process is a Go process
engine_runs(e) ==
    /\ e.msg # MSG_PRESTORE
    /\ e.msg # MSG_RECONFIRM
    /\ get_go_version = 0

run_engine(k, e, cpu) ==
    IF engine_runs(e)
    THEN trace_process(k, e, cpu, session_id(k, e, cpu))
    ELSE [k |-> k, thread_trace_id |-> 0, keep_data_seq |-> FALSE]

\* lines 901-907: the stashed bytes travel in the record when there are any
extra_data(e) == IF e.prev_count > 0 THEN e.prev_buf ELSE <<>>

\* lines 865-962: the record is written into the staging buffer unless the
\* copy of the payload fails
emit(k, e, cpu, v, made, sid) ==
    [k |-> IF e.copy_ok THEN buffer_append(k, cpu, v) ELSE k,
     out |-> IF e.copy_ok THEN <<v>> ELSE <<>>,
     made |-> made, engine |-> engine_runs(e), sid |-> sid]

\* lines 797-833 and 865-962 when socket_info_ptr is not a valid session:
\* found = socket_info_ptr # NULL, ptr = what it points to, id = the id
\* trace_process gave.  A socket_info_ptr found with uid 0 keeps reading
\* uid 0 after socket_info_map__update replaced the element, so lines
\* 835-863 are skipped.
create_session(k, e, cpu, nborn, found, ptr, id) ==
    LET conn_key == gen_conn_key_id(Tgid(e.t), e.fd)
        new_uid == (k.trace_uid_map[cpu].socket_id + 1) % UidSpan
        carry == found /\ e.dir = T_EGRESS
        sk_info == [ZeroSockInfo EXCEPT
                      !.peer_fd = IF carry THEN ptr.peer_fd ELSE 0,
                      !.uid = IF e.msg = MSG_PRESTORE THEN 0 ELSE new_uid,
                      !.l7_proto = e.proto,
                      !.direction = e.dir,
                      !.msg_type = stored_msg_type(e.msg),
                      !.update_time = uptime,
                      !.prev_data = IF e.msg = MSG_PRESTORE THEN e.prev_buf ELSE <<>>,
                      !.prev_data_len = IF e.msg = MSG_PRESTORE THEN 4 ELSE 0,
                      !.need_reconfirm = e.need_reconfirm,
                      !.born = IF e.msg = MSG_PRESTORE THEN 0 ELSE nborn]
        k2 == [k EXCEPT !.trace_uid_map[cpu].socket_id = new_uid,
                        !.socket_info_map = MapPut(@, conn_key, sk_info),
                        !.trace_stats_map[cpu].socket_map_count =
                              IF found THEN @ ELSE @ + 1]
        made == IF e.msg = MSG_PRESTORE THEN <<>> ELSE <<new_uid>>
        v == [socket_id |-> new_uid, data_seq |-> 0,
              tgid |-> Tgid(e.t), pid |-> e.t[2],
              direction |-> e.dir, msg_type |-> e.msg, data_type |-> e.proto,
              thread_trace_id |-> IF carry THEN ptr.trace_id ELSE id,
              extra_data |-> extra_data(e), extra_data_count |-> e.prev_count,
              data |-> e.buf, data_len |-> Len(e.buf),
              timestamp |-> uptime, cpu |-> cpu, born |-> nborn]
    IN IF e.msg = MSG_PRESTORE \/ e.msg = MSG_RECONFIRM
       THEN [k |-> k2, out |-> <<>>, made |-> made, engine |-> engine_runs(e),
             sid |-> new_uid]
       ELSE emit(k2, e, cpu, v, made, new_uid)

\* lines 850-857: an ingress on a session that has a peer parks the trace
\* id in the peer's entry
park_in_peer(sim, e, peer_fd, id) ==
    IF /\ peer_fd # 0
       /\ e.dir = T_INGRESS
       /\ is_socket_info_valid(sim, gen_conn_key_id(Tgid(e.t), peer_fd))
    THEN [sim EXCEPT ![gen_conn_key_id(Tgid(e.t), peer_fd)].trace_id = id]
    ELSE sim

\* lines 859-862: an egress takes the trace id parked in its own entry
take_parked(sim, e) ==
    IF /\ e.dir = T_EGRESS
       /\ sim[gen_conn_key_id(Tgid(e.t), e.fd)].trace_id # 0
    THEN [sim EXCEPT ![gen_conn_key_id(Tgid(e.t), e.fd)].trace_id = 0]
    ELSE sim

\* next_seq without the increment of line 845
next_seq_stuck(seq, keep) == seq

\* lines 842-845: the capture sequence number of the record
next_seq(seq, keep) == IF keep THEN seq ELSE seq + 1

\* record_trace_id without lines 859-862: the parked id is never taken
record_trace_id_unparked(e, parked, id) == id

\* lines 859-860: the trace id an event's record carries, parked = the
\* trace_id of the event's own entry
record_trace_id(e, parked, id) ==
    IF e.dir = T_EGRESS /\ parked # 0 THEN parked ELSE id

\* lines 831-863 and 865-962 when socket_info_ptr is a valid session: old =
\* the entry at arrival, id and keep from trace_process
update_session(k, e, cpu, old, id, keep) ==
    LET conn_key == gen_conn_key_id(Tgid(e.t), e.fd)
        seq == next_seq(old.seq, keep)
        sim1 == [k.socket_info_map EXCEPT
                    ![conn_key] = [@ EXCEPT !.seq = seq,
                                            !.direction = e.dir,
                                            !.msg_type = stored_msg_type(e.msg),
                                            !.update_time = uptime]]
        sim2 == park_in_peer(sim1, e, old.peer_fd, id)
        parked == sim2[conn_key].trace_id
        v == [socket_id |-> old.uid, data_seq |-> seq,
              tgid |-> Tgid(e.t), pid |-> e.t[2],
              direction |-> e.dir, msg_type |-> e.msg, data_type |-> e.proto,
              thread_trace_id |-> record_trace_id(e, parked, id),
              extra_data |-> extra_data(e), extra_data_count |-> e.prev_count,
              data |-> e.buf, data_len |-> Len(e.buf),
              timestamp |-> uptime, cpu |-> cpu, born |-> old.born]
    IN IF e.msg = MSG_PRESTORE \/ e.msg = MSG_RECONFIRM
       THEN [k |-> k, out |-> <<>>, made |-> <<>>, engine |-> engine_runs(e),
             sid |-> old.uid]
       ELSE emit([k EXCEPT !.socket_info_map = take_parked(sim2, e)],
                 e, cpu, v, <<>>, old.uid)

\* lines 777-863: tp is what the trace engine returned; socket_info_ptr was
\* looked up before it ran and the engine leaves socket_info_map alone
submit_session(k, e, cpu, nborn, tp) ==
    IF is_socket_info_valid(k.socket_info_map, gen_conn_key_id(Tgid(e.t), e.fd))
    THEN update_session(tp.k, e, cpu,
                        k.socket_info_map[gen_conn_key_id(Tgid(e.t), e.fd)],
                        tp.thread_trace_id, tp.keep_data_seq)
    ELSE IF gen_conn_key_id(Tgid(e.t), e.fd) \in DOMAIN k.socket_info_map
    THEN create_session(tp.k, e, cpu, nborn, TRUE,
                        k.socket_info_map[gen_conn_key_id(Tgid(e.t), e.fd)],
                        tp.thread_trace_id)
    ELSE create_session(tp.k, e, cpu, nborn, FALSE, ZeroSockInfo, tp.thread_trace_id)

data_submit(k, e, cpu, nborn) ==
    IF e.msg = MSG_UNKNOWN THEN NoResult(k)
    ELSE IF e.msg = MSG_CLEAR
    THEN NoResult(delete_socket_info(k, gen_conn_key_id(Tgid(e.t), e.fd), cpu))
    ELSE submit_session(k, e, cpu, nborn, run_engine(k, e, cpu))

(***************************************************************************)
(* process_data, socket_trace.c:965-1039, entered from a syscall exit      *)
(* probe with a stashed fd > 2 and a positive return value.                *)
(* e.sock: the descriptor is a TCP (established) or UDP socket.            *)
(***************************************************************************)
\* The protocol inference process_data calls fills conn_info->prev_buf,
\* conn_info->prev_count and conn_info->need_reconfirm (reset at
\* socket_trace.c:263-266): a read classified PRESTORE hands over its first
\* 4 bytes to be stashed, any other event takes the bytes stashed in the
\* SocketInfo of its descriptor; an event classified RECONFIRM asks for the
\* protocol to be confirmed again.
check_and_fetch_prev_data(k, e) ==
    LET conn_key == gen_conn_key_id(Tgid(e.t), e.fd)
        sim == k.socket_info_map
        need == [need_reconfirm |-> e.msg = MSG_RECONFIRM]
    IN IF e.msg = MSG_PRESTORE
       THEN [prev_buf |-> SubSeq(e.buf, 1, 4), prev_count |-> 0] @@ need @@ e
       ELSE IF conn_key \in DOMAIN sim /\ sim[conn_key].prev_data_len > 0
       THEN [prev_buf |-> sim[conn_key].prev_data,
             prev_count |-> sim[conn_key].prev_data_len] @@ need @@ e
       ELSE [prev_buf |-> <<>>, prev_count |-> 0] @@ need @@ e

\* data_gate_open without the ready check of line 993
data_gate_open_always(k, cpu) == TRUE

\* lines 992-997: the handler goes on only on a CPU whose offsets are ready
\* (the CO-RE object needs none)
data_gate_open(k, cpu) == bpf_core \/ k.members_offset[cpu].ready # 0

process_data(k, e, cpu, nborn) ==
    LET k1 == IF bpf_core THEN [k EXCEPT !.members_offset[cpu].ready = 1] ELSE k
    IN
    IF ~data_gate_open(k, cpu) THEN NoResult(k)
    ELSE IF ~e.sock THEN NoResult(k1)
    ELSE IF e.proto = PROTO_UNKNOWN /\ e.msg = MSG_UNKNOWN THEN NoResult(k1)
    ELSE data_submit(k1, check_and_fetch_prev_data(k1, e), cpu, nborn)

(***************************************************************************)
(* infer_offset_retry, socket_trace.c:487-519, with the scans of           *)
(* infer_and_get_socket_from_fd (task_struct_utils.h:51-152),              *)
(* infer_sock_flags and infer_tcp_seq_offset (socket_trace.c:437-484).     *)
(* inf says what the scans find for the descriptor: files (a candidate     *)
(* offset of task_struct.files matches), sk (the descriptor is a           *)
(* stream/datagram socket), flags, copied, write (the candidate offsets    *)
(* of sock.flags, tcp_sock.copied_seq, tcp_sock.write_seq match).          *)
(* An offset is 0 (unknown) or 1 (known).                                  *)
(***************************************************************************)
infer_offset_retry(k, cpu, inf) ==
    LET off == k.members_offset[cpu]
        files == IF off.files # 0 THEN off.files ELSE IF inf.files THEN 1 ELSE 0
        infer_sk == files # 0 /\ inf.sk
        flags == IF off.flags # 0 THEN off.flags ELSE IF inf.flags THEN 1 ELSE 0
        scan == off.copied_seq = 0 \/ off.write_seq = 0
        copied == IF off.copied_seq # 0 THEN off.copied_seq
                  ELSE IF inf.copied THEN 1 ELSE 0
        write == IF off.write_seq # 0 THEN off.write_seq
                 ELSE IF copied # 0 /\ inf.write THEN 1 ELSE 0
        ready == IF copied # 0 /\ write # 0 /\ flags # 0 /\ files # 0 THEN 1 ELSE off.ready
    IN
    IF bpf_core \/ off.ready # 0 THEN k
    ELSE IF ~infer_sk THEN [k EXCEPT !.members_offset[cpu].files = files]
    ELSE IF ~scan
    THEN [k EXCEPT !.members_offset[cpu].files = files,
                   !.members_offset[cpu].flags = flags]
    ELSE [k EXCEPT !.members_offset[cpu] =
                      [files |-> files, flags |-> flags, copied_seq |-> copied,
                       write_seq |-> write, ready |-> ready]]

\* infer_offset_retry that always returns OFFSET_READY
offset_ready_always(k, cpu) == TRUE
\* OFFSET_READY / OFFSET_NO_READY as infer_offset_retry returns it
offset_ready(k, cpu) == bpf_core \/ k.members_offset[cpu].ready # 0

\* close_handler that leaves the entry of the descriptor in place
close_handler_lazy(k, t, fd, cpu, inf) == infer_offset_retry(k, cpu, inf)

(***************************************************************************)
(* sys_enter_close, socket_trace.c:1434-1452                               *)
(***************************************************************************)
close_handler(k, t, fd, cpu, inf) ==
    LET k1 == infer_offset_retry(k, cpu, inf)
    IN IF ~offset_ready(k1, cpu) THEN k1
       ELSE IF ~inf.sk THEN k1
       ELSE delete_socket_info(k1, gen_conn_key_id(Tgid(t), fd), cpu)

\* socket_handler that parks no trace id
socket_handler_unparked(k, t, fd, cpu) ==
    IF ~is_nginx THEN k
    ELSE IF ~(t \in DOMAIN k.trace_map) THEN k
    ELSE LET trace == k.trace_map[t]
         IN IF trace.peer_fd = 0 \/ trace.peer_fd = fd THEN k
            ELSE [k EXCEPT
                    !.socket_info_map =
                        MapPut(@, gen_conn_key_id(Tgid(t), fd),
                               [ZeroSockInfo EXCEPT !.peer_fd = trace.peer_fd]),
                    !.trace_stats_map[cpu].socket_map_count = @ + 1]

(***************************************************************************)
(* sys_exit_socket, socket_trace.c:1486-1512: fd is the new descriptor     *)
(***************************************************************************)
socket_handler(k, t, fd, cpu) ==
    IF ~is_nginx THEN k
    ELSE IF ~(t \in DOMAIN k.trace_map) THEN k
    ELSE LET trace == k.trace_map[t]
         IN IF trace.peer_fd = 0 \/ trace.peer_fd = fd THEN k
            ELSE [k EXCEPT
                    !.socket_info_map =
                        MapPut(@, gen_conn_key_id(Tgid(t), fd),
                               [ZeroSockInfo EXCEPT !.peer_fd = trace.peer_fd,
                                                    !.trace_id = trace.thread_trace_id]),
                    !.trace_stats_map[cpu].socket_map_count = @ + 1]

(***************************************************************************)
(* User plane, symbol.c                                                    *)
(***************************************************************************)
Callers == {"c1", "c2"}
\* what tracer_hooks_attach / tracer_hooks_detach can return: 0 or an error
HookResults == {0, -1}
\* names of the periodic events, symbol.c:1199 and 1204
CHECK_MAP_EXCEEDED == "check-map-exceeded"
CHECK_KERN_ADAPT == "check-kern-adapt"

\* t->state, "none" while find_bpf_tracer(SK_TRACER_NAME) is NULL
TracerState == IF tracer = <<>> THEN "none" ELSE tracer[1].state

\* 0 when the running kernel is at least maj.min
check_kernel_version(maj, min) ==
    IF kver[1] > maj \/ (kver[1] = maj /\ kver[2] >= min) THEN 0 ELSE -1

\* reclaim_socket_map that also deletes the entries idle exactly timeout
reclaim_socket_map_eager(sim, timeout) ==
    LET old == {key \in DOMAIN sim : uptime - sim[key].update_time >= timeout}
    IN [map |-> [key \in (DOMAIN sim) \ old |-> sim[key]], count |-> Cardinality(old)]

(***************************************************************************)
(* reclaim_socket_map, symbol.c:948-973: the entries left and the number   *)
(* deleted                                                                 *)
(***************************************************************************)
reclaim_socket_map(sim, timeout) ==
    LET old == {key \in DOMAIN sim : uptime - sim[key].update_time > timeout}
    IN [map |-> [key \in (DOMAIN sim) \ old |-> sim[key]], count |-> Cardinality(old)]

\* reclaim_trace_map, symbol.c:921-946
reclaim_trace_map(tm, timeout) ==
    LET old == {key \in DOMAIN tm : uptime - tm[key].update_time > timeout}
    IN [map |-> [key \in (DOMAIN tm) \ old |-> tm[key]], count |-> Cardinality(old)]

\* bpf_stats_map_collect, symbol.c:1292-1312: the per-CPU counters summed
RECURSIVE SumCount(_, _, _)
SumCount(stats, field, S) ==
    IF S = {} THEN 0
    ELSE LET c == CHOOSE x \in S : TRUE
         IN stats[c][field] + SumCount(stats, field, S \ {c})
bpf_stats_map_collect(stats) ==
    [socket_map_count |-> SumCount(stats, "socket_map_count", CPUS),
     trace_map_count |-> SumCount(stats, "trace_map_count", CPUS)]

\* map_exceeded that finds every usage at the limit
map_exceeded_always(total, reclaimed, limit) == TRUE

\* symbol.c:990-993: used -= reclaim_count in uint64_t, compared with a
\* 32-bit limit: a difference below 0 wraps to a value above every limit
map_exceeded(total, reclaimed, limit) ==
    (total - reclaimed < 0) \/ (total - reclaimed >= limit)

(***************************************************************************)
(* check_map_exceeded, symbol.c:975-1011; collect_ok: bpf_stats_map_collect*)
(* succeeds                                                                *)
(***************************************************************************)
check_map_exceeded(collect_ok) ==
    /\ CHECK_MAP_EXCEEDED \in period_events
    /\ tracer # <<>>
    /\ LET total == IF collect_ok THEN bpf_stats_map_collect(trace_stats_map)
                    ELSE [socket_map_count |-> 0, trace_map_count |-> 0]
           socks == map_exceeded(total.socket_map_count, socket_map_reclaim_count,
                                 SocketMapMaxReclaim)
           traces == map_exceeded(total.trace_map_count, trace_map_reclaim_count,
                                  TraceMapMaxReclaim)
           rs == reclaim_socket_map(socket_info_map, SOCKET_RECLAIM_TIMEOUT_DEF)
           rt == reclaim_trace_map(trace_map, TRACE_RECLAIM_TIMEOUT_DEF)
       IN /\ socket_info_map' = IF socks THEN rs.map ELSE socket_info_map
          /\ socket_map_reclaim_count' =
                 IF socks THEN socket_map_reclaim_count + rs.count
                 ELSE socket_map_reclaim_count
          /\ trace_map' = IF traces THEN rt.map ELSE trace_map
          /\ trace_map_reclaim_count' =
                 IF traces THEN trace_map_reclaim_count + rt.count
                 ELSE trace_map_reclaim_count
          /\ last' = [socks |-> socks, traces |-> traces, collect_ok |-> collect_ok,
                      socket_map_used |-> total.socket_map_count - socket_map_reclaim_count]
                        @@ [NoEvent EXCEPT !.kind = "check"]
    /\ nev' = nev + 1
    /\ UNCHANGED <<avars, svars, pvars, lvars, evars, tracer, hooks, period_events, adapt_pc, api, run_ret, bpf_core,
                   members_offset, trace_uid_map, trace_stats_map, data_buf, socket_data,
                   stream, created, traced, queues, heap, reader_pc, events_list>>

(***************************************************************************)
(* The control state socket_tracer_start / socket_tracer_stop work on      *)
(***************************************************************************)
CtlState == [state |-> TracerState, hooks |-> hooks, socket_info_map |-> socket_info_map,
             socket_map_reclaim_count |-> socket_map_reclaim_count]

\* start_entry without the TRACER_INIT check of lines 1268-1272
start_entry_unchecked(state) ==
    IF state = "none" THEN <<-1>>
    ELSE IF state = TRACER_RUNNING THEN <<0>>
    ELSE <<>>

\* symbol.c:1263-1278: the checks socket_tracer_start makes before the lock;
\* <<ret>> when it returns there, <<>> when it goes on
start_entry(state) ==
    IF state = "none" THEN <<-1>>
    ELSE IF state = TRACER_INIT THEN <<-1>>
    ELSE IF state = TRACER_RUNNING THEN <<0>>
    ELSE <<>>

\* start_locked that returns the initial ret = -1 of line 1263
start_locked_stale_ret(S, h) ==
    [S |-> IF h = 0 THEN [S EXCEPT !.state = TRACER_RUNNING, !.hooks = TRUE] ELSE S,
     ret |-> -1, hook |-> <<h>>, reclaimed |-> FALSE]

\* symbol.c:1281-1289: the locked section, h is what tracer_hooks_attach returns
start_locked(S, h) ==
    [S |-> IF h = 0 THEN [S EXCEPT !.state = TRACER_RUNNING, !.hooks = TRUE] ELSE S,
     ret |-> h, hook |-> <<h>>, reclaimed |-> FALSE]

\* symbol.c:1261-1290, a call that nothing interleaves with
socket_tracer_start(S, h) ==
    IF start_entry(S.state) # <<>>
    THEN [S |-> S, ret |-> start_entry(S.state)[1], hook |-> <<>>,
          reclaimed |-> FALSE]
    ELSE start_locked(S, h)

\* stop_entry without the TRACER_STOP check of lines 1237-1241
stop_entry_unchecked(state) ==
    IF state = "none" THEN <<-1>>
    ELSE IF state = TRACER_INIT THEN <<-1>>
    ELSE <<>>

\* symbol.c:1226-1241
stop_entry(state) ==
    IF state = "none" THEN <<-1>>
    ELSE IF state = TRACER_INIT THEN <<-1>>
    ELSE IF state = TRACER_STOP THEN <<0>>
    ELSE <<>>

\* stop_locked that sets TRACER_STOP and returns 0 whatever
\* tracer_hooks_detach returns
stop_locked_unchecked(S, h) ==
    LET S1 == [S EXCEPT !.state = TRACER_STOP, !.hooks = IF h = 0 THEN FALSE ELSE @]
        r == reclaim_socket_map(S.socket_info_map, 0)
    IN [S |-> [S1 EXCEPT !.socket_info_map = r.map,
                         !.socket_map_reclaim_count = @ + r.count],
        ret |-> 0, hook |-> <<h>>, reclaimed |-> TRUE]

\* symbol.c:1249-1258, h is what tracer_hooks_detach returns
stop_locked(S, h) ==
    LET S1 == IF h = 0 THEN [S EXCEPT !.state = TRACER_STOP, !.hooks = FALSE] ELSE S
        r == reclaim_socket_map(S.socket_info_map, 0)
    IN [S |-> [S1 EXCEPT !.socket_info_map = r.map,
                         !.socket_map_reclaim_count = @ + r.count],
        ret |-> h, hook |-> <<h>>, reclaimed |-> TRUE]

\* symbol.c:1224-1259, a call that nothing interleaves with
socket_tracer_stop(S, h) ==
    IF stop_entry(S.state) # <<>>
    THEN [S |-> S, ret |-> stop_entry(S.state)[1], hook |-> <<>>,
          reclaimed |-> FALSE]
    ELSE stop_locked(S, h)

SetCtl(S) ==
    /\ tracer' = IF tracer = <<>> THEN tracer ELSE <<[tracer[1] EXCEPT !.state = S.state]>>
    /\ hooks' = S.hooks
    /\ socket_info_map' = S.socket_info_map
    /\ socket_map_reclaim_count' = S.socket_map_reclaim_count

IdleCall == [op |-> "none", pc |-> "idle", seen |-> "none", ret |-> 0,
             hook |-> <<>>, reclaimed |-> FALSE, from |-> "none", to |-> "none"]

\* a control thread enters socket_tracer_start or socket_tracer_stop and
\* returns at once or goes on to wait for mutex_probes_lock
CallEntry(c, op) ==
    /\ api[c].pc # "wait"
    /\ LET early == IF op = "start" THEN start_entry(TracerState)
                    ELSE stop_entry(TracerState)
       IN api' = [api EXCEPT ![c] =
                    [op |-> op, pc |-> IF early = <<>> THEN "wait" ELSE "done",
                     seen |-> TracerState,
                     ret |-> IF early = <<>> THEN 0 ELSE early[1],
                     hook |-> <<>>, reclaimed |-> FALSE,
                     from |-> TracerState, to |-> TracerState]]
    /\ UNCHANGED <<avars, svars, pvars, lvars, evars, kvars, hvars, rvars, tracer, hooks, period_events, adapt_pc,
                   run_ret, socket_map_reclaim_count, bpf_core>>

\* the locked section of the call c is in, up to its return
CallLocked(c, h) ==
    /\ api[c].pc = "wait"
    /\ LET r == IF api[c].op = "start" THEN start_locked(CtlState, h)
                ELSE stop_locked(CtlState, h)
       IN /\ SetCtl(r.S)
          /\ api' = [api EXCEPT ![c] =
                       [@ EXCEPT !.pc = "done", !.ret = r.ret,
                                 !.hook = r.hook,
                                 !.reclaimed = r.reclaimed,
                                 !.from = TracerState, !.to = r.S.state]]
    /\ UNCHANGED <<avars, svars, pvars, lvars, evars, hvars, rvars, period_events, adapt_pc, run_ret, bpf_core,
                   members_offset, trace_uid_map, trace_stats_map, trace_map,
                   data_buf, socket_data>>

\* kernel_supported without the check of line 1081
kernel_supported_always == TRUE

\* symbol.c:1081: the kernel is at least Linux 4.14
kernel_supported == check_kernel_version(4, 14) = 0

(***************************************************************************)
(* running_socket_tracer, symbol.c:1067-1222.                              *)
(* fail names the first step that fails; uid_base is the value of line     *)
(* 1165 reduced to UidLowBits bits.                                        *)
(***************************************************************************)
RunSteps == <<"create", "config", "hooks", "perf", "seed", "workers",
              "register1", "register2", "late", "none">>
StepRank(step) == CHOOSE i \in 1 .. Len(RunSteps) : RunSteps[i] = step
\* uid_seed without the CPU index
uid_seed_nocpu(cpu, uid_base) == uid_base % UidSpan

\* the seed of a CPU's generators: (cpu << 56) | uid_base
uid_seed(cpu, uid_base) == (cpu * UidLowSpan + uid_base) % UidSpan

running_socket_tracer(fail, uid_base) ==
    /\ run_ret = <<>>
    /\ IF ~kernel_supported
       THEN /\ run_ret' = <<-22>>
            /\ UNCHANGED <<tracer, hooks, trace_uid_map, period_events>>
       ELSE LET rank == IF uid_base = 0 /\ StepRank(fail) > StepRank("seed")
                        THEN StepRank("seed") ELSE StepRank(fail)
            IN /\ tracer' = IF rank > StepRank("create")
                            THEN <<[state |-> TRACER_INIT, adapt_success |-> FALSE]>>
                            ELSE tracer
               /\ hooks' = (rank > StepRank("hooks"))
               /\ trace_uid_map' =
                      IF rank > StepRank("seed")
                      THEN [cpu \in CPUS |->
                               [socket_id |-> uid_seed(cpu, uid_base),
                                thread_trace_id |-> uid_seed(cpu, uid_base)]]
                      ELSE trace_uid_map
               /\ period_events' =
                      IF rank > StepRank("register2")
                      THEN {CHECK_MAP_EXCEEDED, CHECK_KERN_ADAPT}
                      ELSE IF rank > StepRank("register1")
                      THEN {CHECK_MAP_EXCEEDED}
                      ELSE {}
               /\ run_ret' = IF fail = "none" /\ uid_base # 0 THEN <<0>> ELSE <<-22>>
    /\ UNCHANGED <<avars, svars, pvars, lvars, evars, hvars, rvars, adapt_pc, api, socket_map_reclaim_count,
                   bpf_core, members_offset, trace_stats_map, socket_info_map, trace_map,
                   data_buf, socket_data>>

(***************************************************************************)
(* is_adapt_success and update_offsets_table, symbol.c:1314-1367.          *)
(* collect_ok: bpf_offset_map_collect succeeds; set_ok: bpf_table_set_value*)
(* succeeds.  Result: is_success and the offsets table afterwards.         *)
(***************************************************************************)
\* is_adapt_success without the ready test of line 1354
is_adapt_success_any(mo, collect_ok, set_ok) ==
    LET cand == {i \in CPUS : cpu_online[i]}
        first == CHOOSE i \in cand : \A j \in cand : i <= j
    IN IF ~collect_ok \/ cand = {} THEN [is_success |-> FALSE, mo |-> mo]
       ELSE IF set_ok THEN [is_success |-> TRUE, mo |-> [i \in CPUS |-> mo[first]]]
       ELSE [is_success |-> FALSE, mo |-> mo]

\* is_adapt_success that leaves the offsets of the other CPUs alone
is_adapt_success_local(mo, collect_ok, set_ok) ==
    [is_success |-> collect_ok /\ set_ok /\ \E i \in CPUS : cpu_online[i] /\ mo[i].ready = 1,
     mo |-> mo]

is_adapt_success(mo, collect_ok, set_ok) ==
    LET cand == {i \in CPUS : cpu_online[i] /\ mo[i].ready = 1}
        first == CHOOSE i \in cand : \A j \in cand : i <= j
    IN IF ~collect_ok \/ cand = {} THEN [is_success |-> FALSE, mo |-> mo]
       ELSE IF set_ok THEN [is_success |-> TRUE, mo |-> [i \in CPUS |-> mo[first]]]
       ELSE [is_success |-> FALSE, mo |-> mo]

\* adapt_state that starts the tracer instead of stopping it
adapt_state_running(state, h) == IF h = 0 THEN TRACER_RUNNING ELSE state

\* symbol.c:1021-1024: the state after the adaptation check detached the
\* probes, h is what tracer_hooks_detach returned
adapt_state(state, h) == IF h = 0 THEN TRACER_STOP ELSE state

(***************************************************************************)
(* check_kern_adapt_and_state_update, symbol.c:1013-1030, in two steps:    *)
(* lines 1019-1024 and lines 1025-1026 (nothing locks the tracer here).    *)
(***************************************************************************)
check_kern_adapt_and_state_update(collect_ok, set_ok, h) ==
    /\ CHECK_KERN_ADAPT \in period_events
    /\ adapt_pc = "idle"
    /\ tracer # <<>>
    /\ LET r == is_adapt_success(members_offset, collect_ok, set_ok)
       IN /\ members_offset' = r.mo
          /\ IF r.is_success
             THEN /\ adapt_pc' = "mark"
                  /\ hooks' = IF h = 0 THEN FALSE ELSE hooks
                  /\ tracer' = <<[tracer[1] EXCEPT !.state = adapt_state(@, h)]>>
             ELSE UNCHANGED <<adapt_pc, hooks, tracer>>
    /\ UNCHANGED <<avars, svars, pvars, lvars, evars, hvars, rvars, period_events, api, run_ret,
                   socket_map_reclaim_count, bpf_core, trace_uid_map, trace_stats_map,
                   socket_info_map, trace_map, data_buf, socket_data>>

adapt_mark ==
    /\ adapt_pc = "mark"
    /\ adapt_pc' = "idle"
    /\ period_events' = period_events \ {CHECK_KERN_ADAPT}
    /\ tracer' = <<[tracer[1] EXCEPT !.adapt_success = TRUE]>>
    /\ UNCHANGED <<avars, svars, pvars, lvars, evars, hvars, kvars, rvars, hooks, api, run_ret,
                   socket_map_reclaim_count, bpf_core>>

\* secs seconds pass
Pass(secs) ==
    /\ uptime' = uptime + secs
    /\ UNCHANGED <<avars, svars, pvars, lvars, kver, cpu_online, proc_kind, trace_map_max, uvars, kvars, hvars, rvars>>

\* one second passes
Tick ==
    /\ uptime' = uptime + 1
    /\ UNCHANGED <<avars, svars, pvars, lvars, kver, cpu_online, proc_kind, trace_map_max, uvars, kvars, hvars, rvars>>

(***************************************************************************)
(* The probes.  A probe runs on an online CPU while the probes are         *)
(* attached.                                                               *)
(***************************************************************************)
PreSock(t, fd) ==
    IF gen_conn_key_id(Tgid(t), fd) \in DOMAIN socket_info_map
    THEN <<socket_info_map[gen_conn_key_id(Tgid(t), fd)]>> ELSE <<>>
PreTrace(t) == IF t \in DOMAIN trace_map THEN <<trace_map[t]>> ELSE <<>>

Observe(kind, e, cpu, r) ==
    [kind |-> kind, e |-> e, cpu |-> cpu, out |-> r.out, engine |-> r.engine,
     sid |-> r.sid, prev |-> traced[e.t], state |-> TracerState,
     ready |-> members_offset[cpu].ready, sock |-> PreSock(e.t, e.fd),
     trace |-> PreTrace(e.t)]

\* sys_exit_read / write / sendto / recvfrom / ..., socket_trace.c:1087-1430,
\* for a descriptor > 2 and a positive byte count
Deliver(e, cpu, r) ==
    /\ SetK(r.k)
    /\ stream' = stream \o r.out
    /\ created' = created \o [i \in 1 .. Len(r.made) |-> [uid |-> r.made[i], cpu |-> cpu]]
    /\ last' = Observe("data", e, cpu, r)
    /\ traced' = IF r.engine
                 THEN [traced EXCEPT ![e.t] =
                         <<[fd |-> e.fd, dir |-> e.dir, msg |-> e.msg,
                            sid |-> r.sid, out |-> r.out]>>]
                 ELSE traced

\* the bytes at args->buf of the n-th probe event: a read classified
\* PRESTORE brought 4 bytes, any other syscall PayloadLen bytes
syscall_args(e, n) ==
    [buf |-> [i \in 1 .. (IF e.msg = MSG_PRESTORE THEN 4 ELSE PayloadLen) |-> n]] @@ e

sys_exit_data(e, cpu) ==
    /\ hooks
    /\ cpu_online[cpu]
    /\ Deliver(e, cpu, process_data(KState, syscall_args(e, nev + 1), cpu, Len(created) + 1))
    /\ nev' = nev + 1
    /\ UNCHANGED <<avars, svars, pvars, lvars, evars, uvars, rvars>>

(***************************************************************************)
(* is_tcp_udp_data, socket_trace.c:170-243.  sk is what the handler reads  *)
(* from struct sock: skc_family, skc_ipv6only, sk_type, skc_state.         *)
(* Result: the check type and conn_info->skc_family as the switch leaves   *)
(* it.                                                                     *)
(***************************************************************************)
PF_UNIX == 1
PF_INET == 2
PF_INET6 == 10
SOCK_STREAM == 1
SOCK_DGRAM == 2
TCPF_ESTABLISHED == 2
TCPF_CLOSE_WAIT == 256
SOCK_CHECK_TYPE_ERROR == "SOCK_CHECK_TYPE_ERROR"
SOCK_CHECK_TYPE_UDP == "SOCK_CHECK_TYPE_UDP"
SOCK_CHECK_TYPE_TCP_ES == "SOCK_CHECK_TYPE_TCP_ES"

\* (1 << skc_state) & ~(TCPF_ESTABLISHED | TCPF_CLOSE_WAIT), line 237
tcp_state_refused(skc_state) == 2 ^ skc_state \notin {TCPF_ESTABLISHED, TCPF_CLOSE_WAIT}

SockCheck(type, family) == [type |-> type, skc_family |-> family]

\* is_tcp_udp_data that lets no IPv6-only socket through
is_tcp_udp_data_v4_mapped_only(sk) ==
    IF sk.skc_family = PF_INET6 /\ sk.skc_ipv6only # 0
    THEN SockCheck(SOCK_CHECK_TYPE_ERROR, sk.skc_family)
    ELSE IF sk.skc_family \notin {PF_INET, PF_INET6}
    THEN SockCheck(SOCK_CHECK_TYPE_ERROR, sk.skc_family)
    ELSE IF sk.sk_type = SOCK_DGRAM THEN SockCheck(SOCK_CHECK_TYPE_UDP, PF_INET)
    ELSE IF sk.sk_type # SOCK_STREAM THEN SockCheck(SOCK_CHECK_TYPE_ERROR, PF_INET)
    ELSE IF tcp_state_refused(sk.skc_state) THEN SockCheck(SOCK_CHECK_TYPE_ERROR, PF_INET)
    ELSE SockCheck(SOCK_CHECK_TYPE_TCP_ES, PF_INET)

is_tcp_udp_data(sk) ==
    LET family == IF sk.skc_family = PF_INET6 /\ sk.skc_ipv6only = 0
                  THEN PF_INET ELSE sk.skc_family
    IN IF sk.skc_family \notin {PF_INET, PF_INET6}
       THEN SockCheck(SOCK_CHECK_TYPE_ERROR, sk.skc_family)
       ELSE IF sk.sk_type = SOCK_DGRAM THEN SockCheck(SOCK_CHECK_TYPE_UDP, family)
       ELSE IF sk.sk_type # SOCK_STREAM THEN SockCheck(SOCK_CHECK_TYPE_ERROR, family)
       ELSE IF tcp_state_refused(sk.skc_state) THEN SockCheck(SOCK_CHECK_TYPE_ERROR, family)
       ELSE SockCheck(SOCK_CHECK_TYPE_TCP_ES, family)

\* process_data lines 999-1007: sk is <<>> when get_socket_from_fd finds no
\* socket behind the descriptor, else <<what struct sock holds>>
socket_accepted(sk) ==
    sk # <<>> /\ is_tcp_udp_data(sk[1]).type # SOCK_CHECK_TYPE_ERROR

(***************************************************************************)
(* The entry and exit handlers of the ten data syscalls,                   *)
(* socket_trace.c:1070-1430.  A handler is named by its syscall.           *)
(***************************************************************************)
Syscalls == {"read", "write", "sendto", "recvfrom", "sendmsg", "sendmmsg",
             "recvmsg", "recvmmsg", "writev", "readv"}
\* the handlers that stash in, look up and delete from active_write_args_map
is_write(fn) == fn \in {"write", "sendto", "sendmsg", "sendmmsg", "writev"}
\* the entry handlers that stash only when the message pointer is not NULL
needs_msg(fn) == fn \in {"sendmsg", "sendmmsg", "recvmsg", "recvmmsg"}
\* the exit handlers whose return value is a number of messages
is_mmsg(fn) == fn \in {"sendmmsg", "recvmmsg"}
syscall_direction(fn) == IF is_write(fn) THEN T_EGRESS ELSE T_INGRESS

\* exit handlers that test the descriptor of no syscall
checks_fd_never(fn) == FALSE
\* "Don't process FD 0-2 to avoid STDIN, STDOUT, STDERR": lines 1093, 1123
checks_fd(fn) == fn \in {"read", "write"}

\* struct data_args_t as an entry handler fills it: buf says that buf
\* (iov and iovlen > 0 for the vector syscalls) points at something
data_args(fn, fd, buf) == [source_fn |-> fn, fd |-> fd, buf |-> buf]

\* the entry handler of fn in thread t: stash the arguments
sys_enter_syscall(t, fn, fd, buf, msg) ==
    /\ hooks
    /\ in_syscall[t] = <<>>
    /\ in_syscall' = [in_syscall EXCEPT ![t] = <<fn>>]
    /\ IF needs_msg(fn) /\ ~msg
       THEN UNCHANGED <<active_read_args_map, active_write_args_map>>
       ELSE IF is_write(fn)
       THEN /\ active_write_args_map' =
                  MapPut(active_write_args_map, t, data_args(fn, fd, buf))
            /\ UNCHANGED active_read_args_map
       ELSE /\ active_read_args_map' =
                  MapPut(active_read_args_map, t, data_args(fn, fd, buf))
            /\ UNCHANGED active_write_args_map
    /\ last' = [NoEvent EXCEPT !.kind = "enter"]
    /\ nev' = nev + 1
    /\ UNCHANGED <<svars, pvars, lvars, evars, uvars, kvars, rvars, stream, created, traced>>

\* process_data lines 975-983: the checks on the stashed arguments and on
\* the byte count
args_valid(args, bytes_count) == args.buf /\ ~(args.fd < 0 \/ bytes_count <= 0)

\* the exit handler of the syscall thread t is inside, which returned ret;
\* msg_len is mmsghdr.msg_len of the first message, cls what the socket
\* lookup and the protocol inference make of the descriptor and the bytes
sys_exit_syscall(t, ret, msg_len, cls, cpu) ==
    LET fn == in_syscall[t][1]
        map == IF is_write(fn) THEN active_write_args_map ELSE active_read_args_map
        found == t \in DOMAIN map
        args == IF found THEN map[t] ELSE data_args(fn, -1, FALSE)
        bytes_count == IF is_mmsg(fn) THEN msg_len ELSE ret
        runs == /\ found
                /\ checks_fd(fn) => args.fd > 2
                /\ is_mmsg(fn) => ret > 0
        e == [t |-> t, fd |-> args.fd, dir |-> syscall_direction(fn), fn |-> fn,
              ret |-> ret, found |-> found] @@ cls
        r == IF runs /\ args_valid(args, bytes_count)
             THEN process_data(KState, syscall_args(e, nev + 1), cpu, Len(created) + 1)
             ELSE NoResult(KState)
    IN
    /\ hooks
    /\ cpu_online[cpu]
    /\ in_syscall[t] # <<>>
    /\ Deliver(e, cpu, r)
    /\ in_syscall' = [in_syscall EXCEPT ![t] = <<>>]
    /\ IF is_write(fn)
       THEN /\ active_write_args_map' = MapDel(active_write_args_map, t)
            /\ UNCHANGED active_read_args_map
       ELSE /\ active_read_args_map' = MapDel(active_read_args_map, t)
            /\ UNCHANGED active_write_args_map
    /\ nev' = nev + 1
    /\ UNCHANGED <<svars, pvars, lvars, evars, uvars, rvars>>

sys_enter_close_probe(t, fd, cpu, inf) ==
    /\ hooks
    /\ cpu_online[cpu]
    /\ SetK(close_handler(KState, t, fd, cpu, inf))
    /\ last' = Observe("close", [t |-> t, fd |-> fd], cpu, NoResult(KState))
    /\ nev' = nev + 1
    /\ UNCHANGED <<avars, svars, lvars, evars, uvars, rvars, stream, created, traced>>

sys_enter_close(t, fd, cpu, inf) ==
    /\ sys_enter_close_probe(t, fd, cpu, inf)
    /\ UNCHANGED pvars

sys_exit_socket_probe(t, fd, cpu) ==
    /\ hooks
    /\ cpu_online[cpu]
    /\ SetK(socket_handler(KState, t, fd, cpu))
    /\ last' = Observe("socket", [t |-> t, fd |-> fd], cpu, NoResult(KState))
    /\ nev' = nev + 1
    /\ UNCHANGED <<avars, svars, lvars, evars, uvars, rvars, stream, created, traced>>

sys_exit_socket(t, fd, cpu) ==
    /\ sys_exit_socket_probe(t, fd, cpu)
    /\ UNCHANGED pvars

\* the periodic tick on a CPU
sys_enter_getppid(cpu) ==
    /\ hooks
    /\ cpu_online[cpu]
    /\ SetK(getppid_handler(KState, cpu, uptime))
    /\ last' = [NoEvent EXCEPT !.kind = "getppid", !.cpu = cpu]
    /\ UNCHANGED <<avars, svars, pvars, lvars, evars, uvars, rvars, nev, stream, created, traced>>

(***************************************************************************)
(* The perf reader, symbol.c                                               *)
(***************************************************************************)
\* the hash dispatch_queue_index takes of a socket id
xxhash(val) == 7 * val + 5

\* symbol.c:669-672
dispatch_queue_index(val, count) == xxhash(val) % count

\* symbol.c:771-774: the queue of a buffer is chosen from its first record
buffer_queue_index(buf) == dispatch_queue_index(buf.events[1].socket_id, WorkerNr)

\* cap_offset that never makes room for the stashed bytes
cap_offset_none(sd) == 0

\* symbol.c:865-874: the stashed bytes go in front of the captured ones
cap_offset(sd) == IF sd.data_len > 0 /\ sd.extra_data_count > 0 THEN 4 ELSE 0

\* symbol.c:812-886: the socket_bpf_data made from record sd of the buffer,
\* behind its mem_block_head (lines 826-829); free_ptr: the block of the buffer
socket_bpf_data(sd, free_ptr) ==
    [socket_id |-> sd.socket_id, direction |-> sd.direction,
     l7_protocal_hint |-> sd.data_type, process_id |-> sd.tgid, thread_id |-> sd.pid,
     cap_seq |-> sd.data_seq, syscall_trace_id_call |-> sd.thread_trace_id,
     msg_type |-> sd.msg_type,
     cap_data |-> IF cap_offset(sd) > 0 THEN sd.extra_data \o sd.data ELSE sd.data,
     cap_len |-> sd.data_len + cap_offset(sd),
     is_last |-> 0, free_ptr |-> free_ptr, born |-> sd.born, cpu |-> sd.cpu]

\* the first buffer of cpu in the perf channel
FirstOf(cpu) ==
    CHOOSE i \in 1 .. Len(socket_data) :
        /\ socket_data[i].cpu = cpu
        /\ \A j \in 1 .. (i - 1) : socket_data[j].cpu # cpu

Without(seq, i) == SubSeq(seq, 1, i - 1) \o SubSeq(seq, i + 1, Len(seq))

\* the first word of what the perf channel hands over (symbol.c:740-755):
\* events_num of a staging buffer, event_type of an extra event
event_type(buf) ==
    IF "event_type" \in DOMAIN buf THEN buf.event_type ELSE Len(buf.events)

\* symbol.c:687-693, e->type & meta->event_type for an event type of one bit
has_handler(L, type) == \E t \in L : (t \div type) % 2 = 1

\* nr of ring_sp_enqueue_burst: n records offered, room free slots
ring_nr(n, room) == IF room < n THEN room ELSE n

\* a block of the heap: who freed it, in order (<<>>: it is allocated)
Block(kind, freed_by) == [kind |-> kind, freed_by |-> freed_by]

\* symbol.c:776-898 for the staging buffer buf; room: the free slots of the
\* ring, ptr: what malloc returns.  The records enter the ring with
\* is_last = 0.
enqueue_buffer(Q, buf, malloc_ok, room, ptr) ==
    LET events_num == Len(buf.events)
        q_idx == buffer_queue_index(buf)
        nr == ring_nr(events_num, room)
        lost == events_num - nr
        burst_data == [j \in 1 .. nr |-> socket_bpf_data(buf.events[j], ptr)]
    IN IF events_num > MAX_PKT_BURST THEN Q
       ELSE IF ~malloc_ok THEN [Q EXCEPT ![q_idx].heap_get_faild = @ + 1]
       ELSE [Q EXCEPT ![q_idx].r = @ \o burst_data,
                      ![q_idx].enqueue_lost = @ + lost]

\* the heap after symbol.c:813-898: one block for the buffer, freed at line
\* 896 when no record entered the ring
buffer_block(H, buf, malloc_ok, room) ==
    IF Len(buf.events) > MAX_PKT_BURST \/ ~malloc_ok THEN H
    ELSE Append(H, Block("burst", IF ring_nr(Len(buf.events), room) = 0
                                  THEN <<"reader">> ELSE <<>>))

\* what symbol.c:901-912 still has to do after the enqueue of line 888: q
\* the queue, pos the place of burst_data[nr - 1] in it, nr the count
buffer_mark(Q, buf, malloc_ok, room) ==
    LET nr == ring_nr(Len(buf.events), room)
        q_idx == buffer_queue_index(buf)
    IN IF Len(buf.events) > MAX_PKT_BURST \/ ~malloc_ok \/ nr = 0 THEN <<>>
       ELSE <<[kind |-> "burst", q |-> q_idx, pos |-> Len(Q[q_idx].r) + nr, nr |-> nr,
               free_ptr |-> Len(heap) + 1]>>

\* register_events_handle, symbol.c:676-721, for the extra event meta.  The
\* block enters the ring before its head is written (lines 714, 723-725):
\* junk is what the memory malloc returned holds as is_last, free_ptr 0 is a
\* pointer to no block.
register_events_handle(Q, meta, malloc_ok, room, junk) ==
    LET q_idx == dispatch_queue_index(meta.event_type, WorkerNr)
        data == [event_type |-> meta.event_type, is_last |-> junk, free_ptr |-> 0]
    IN IF ~has_handler(events_list, meta.event_type) THEN Q
       ELSE IF ~malloc_ok THEN Q
       ELSE IF ring_nr(1, room) < 1 THEN [Q EXCEPT ![q_idx].enqueue_lost = @ + 1]
       ELSE [Q EXCEPT ![q_idx].r = Append(@, data)]

\* the heap after symbol.c:707-721: one block for the event, freed at line
\* 718 when the ring took nothing
event_block(H, meta, malloc_ok, room) ==
    IF ~has_handler(events_list, meta.event_type) \/ ~malloc_ok THEN H
    ELSE Append(H, Block("extra", IF ring_nr(1, room) < 1 THEN <<"reader">> ELSE <<>>))

\* what symbol.c:723-731 still has to do after the enqueue of line 714
event_mark(Q, meta, malloc_ok, room) ==
    LET q_idx == dispatch_queue_index(meta.event_type, WorkerNr)
    IN IF ~has_handler(events_list, meta.event_type) \/ ~malloc_ok \/ ring_nr(1, room) < 1
       THEN <<>>
       ELSE <<[kind |-> "extra", q |-> q_idx, pos |-> Len(Q[q_idx].r) + 1, nr |-> 1,
               free_ptr |-> Len(heap) + 1]>>

\* symbol.c:901-912 and 723-731: the head of the last record enqueued is
\* written and the records are counted
mark_last(Q, mark) ==
    [Q EXCEPT ![mark.q].r[mark.pos] =
                  IF mark.kind = "extra"
                  THEN [@ EXCEPT !.is_last = 1, !.free_ptr = mark.free_ptr]
                  ELSE [@ EXCEPT !.is_last = 1],
              ![mark.q].enqueue_nr = @ + mark.nr]

\* reader_raw_cb, symbol.c:737-900, up to the enqueue: the queues, the heap
\* and the mark still owed
reader_enqueue(buf, malloc_ok, room, junk) ==
    IF event_type(buf) <= 0
    THEN [queues |-> queues, heap |-> heap, mark |-> <<>>]
    ELSE IF event_type(buf) >= EVENT_TYPE_MIN
    THEN [queues |-> register_events_handle(queues, buf, malloc_ok, room, junk),
          heap |-> event_block(heap, buf, malloc_ok, room),
          mark |-> event_mark(queues, buf, malloc_ok, room)]
    ELSE [queues |-> enqueue_buffer(queues, buf, malloc_ok, room, Len(heap) + 1),
          heap |-> buffer_block(heap, buf, malloc_ok, room),
          mark |-> buffer_mark(queues, buf, malloc_ok, room)]

\* history: the counters of the queues as a reader call found them
Counters ==
    [q \in DOMAIN queues |->
        [enqueue_nr |-> queues[q].enqueue_nr, enqueue_lost |-> queues[q].enqueue_lost,
         heap_get_faild |-> queues[q].heap_get_faild, len |-> Len(queues[q].r)]]

ReaderCall(cpu, buf, malloc_ok) ==
    [buf |-> buf, malloc_ok |-> malloc_ok, before |-> Counters]
        @@ [NoEvent EXCEPT !.kind = "reader", !.cpu = cpu, !.out = buf.events]

(***************************************************************************)
(* reader_raw_cb, symbol.c:737-913, for the oldest buffer the perf ring of *)
(* cpu holds; malloc_ok: malloc returns memory; room: the free slots       *)
(* ring_sp_enqueue_burst finds.  With no worker running between the        *)
(* enqueue and the mark the call is one step.                              *)
(***************************************************************************)
reader_raw_cb(cpu, malloc_ok, room) ==
    /\ tracer # <<>>
    /\ reader_pc = <<>>
    /\ \E i \in 1 .. Len(socket_data) : socket_data[i].cpu = cpu
    /\ LET s == reader_enqueue(socket_data[FirstOf(cpu)], malloc_ok, room, 0)
       IN /\ queues' = IF s.mark = <<>> THEN s.queues ELSE mark_last(s.queues, s.mark[1])
          /\ heap' = s.heap
    /\ socket_data' = Without(socket_data, FirstOf(cpu))
    /\ last' = ReaderCall(cpu, socket_data[FirstOf(cpu)], malloc_ok)
    /\ UNCHANGED <<avars, svars, pvars, lvars, evars, uvars, trace_map_reclaim_count, members_offset, trace_uid_map,
                   trace_stats_map, socket_info_map, trace_map, data_buf,
                   nev, stream, created, traced, reader_pc, events_list>>

(***************************************************************************)
(* reader_raw_cb while the workers run: the records are in the ring from   *)
(* line 888 (714 for an extra event) on, the head of the last one is       *)
(* written at lines 901-903 (723-725) and a worker can run in between.     *)
(***************************************************************************)
reader_raw_cb_enqueue(cpu, malloc_ok, room, junk) ==
    /\ tracer # <<>>
    /\ reader_pc = <<>>
    /\ \E i \in 1 .. Len(socket_data) : socket_data[i].cpu = cpu
    /\ LET s == reader_enqueue(socket_data[FirstOf(cpu)], malloc_ok, room, junk)
       IN /\ queues' = s.queues
          /\ heap' = s.heap
          /\ reader_pc' = s.mark
    /\ socket_data' = Without(socket_data, FirstOf(cpu))
    /\ last' = ReaderCall(cpu, socket_data[FirstOf(cpu)], malloc_ok)
    /\ UNCHANGED <<avars, svars, pvars, lvars, evars, uvars, trace_map_reclaim_count, members_offset, trace_uid_map,
                   trace_stats_map, socket_info_map, trace_map, data_buf,
                   nev, stream, created, traced, events_list>>

reader_raw_cb_mark ==
    /\ reader_pc # <<>>
    /\ queues' = mark_last(queues, reader_pc[1])
    /\ reader_pc' = <<>>
    /\ UNCHANGED <<avars, svars, pvars, lvars, evars, uvars, kvars, hvars, trace_map_reclaim_count, heap, events_list>>

(***************************************************************************)
(* The worker of queue q takes the oldest record of the ring, hands it to  *)
(* the callback and releases the backing block when the record's head says *)
(* it is the last one of the block.                                        *)
(***************************************************************************)
worker_free(H, sd) ==
    IF sd.is_last = 1 /\ sd.free_ptr \in 1 .. Len(H)
    THEN [H EXCEPT ![sd.free_ptr].freed_by = Append(@, "worker")]
    ELSE H

worker_consume(q) ==
    /\ tracer # <<>>
    /\ queues[q].dequeue_nr < Len(queues[q].r)
    /\ heap' = worker_free(heap, queues[q].r[queues[q].dequeue_nr + 1])
    /\ queues' = [queues EXCEPT ![q].dequeue_nr = @ + 1]
    /\ UNCHANGED <<avars, svars, pvars, lvars, evars, uvars, kvars, hvars, trace_map_reclaim_count, reader_pc,
                   events_list>>

\* process_event, symbol.c:661-667: the exec event of the traced process
\* reaches go_process_exec, which finds a Go binary; from then on
\* get_go_version() is nonzero for the process
go_process_exec ==
    /\ tracer # <<>>
    /\ proc_kind = "plain"
    /\ proc_kind' = "go"
    /\ UNCHANGED <<avars, svars, pvars, lvars, kver, cpu_online, uptime, trace_map_max, uvars, kvars, hvars, rvars>>

\* register_event_handle, symbol.c:1427-1453; calloc_ok: calloc returns memory
register_event_handle(type, fn, calloc_ok) ==
    /\ events_list' = IF type < EVENT_TYPE_MIN \/ ~fn \/ ~calloc_ok
                      THEN events_list ELSE events_list \cup {type}
    /\ last' = [NoEvent EXCEPT !.kind = "register"]
    /\ UNCHANGED <<avars, svars, pvars, lvars, evars, uvars, kvars, nev, stream, created, traced,
                   trace_map_reclaim_count, queues, heap, reader_pc>>

\* a process exec / exit probe puts an extra event into the perf channel
proc_event(cpu, type) ==
    /\ hooks
    /\ cpu_online[cpu]
    /\ socket_data' = Append(socket_data, [cpu |-> cpu, events |-> <<>>, event_type |-> type])
    /\ last' = [NoEvent EXCEPT !.kind = "proc", !.cpu = cpu]
    /\ nev' = nev + 1
    /\ UNCHANGED <<avars, svars, pvars, lvars, evars, uvars, rvars, members_offset, trace_uid_map, trace_stats_map,
                   socket_info_map, trace_map, data_buf, stream, created, traced>>

(***************************************************************************)
(* Inputs                                                                  *)
(***************************************************************************)
Event(t, fd, dir, msg, proto, copy_ok, sock) ==
    [t |-> t, fd |-> fd, dir |-> dir, msg |-> msg, proto |-> proto,
     copy_ok |-> copy_ok, sock |-> sock]
Dirs == {T_EGRESS, T_INGRESS}
\* an event on the descriptor of what get_socket_from_fd finds
SockEvent(t, fd, dir, msg, proto, sk) ==
    [sk |-> sk] @@ Event(t, fd, dir, msg, proto, TRUE, socket_accepted(sk))
\* what the scans of one close() can find
Infer(files, sk, flags, copied, write) ==
    [files |-> files, sk |-> sk, flags |-> flags, copied |-> copied, write |-> write]
InferAll == Infer(TRUE, TRUE, TRUE, TRUE, TRUE)
InferNone == Infer(FALSE, FALSE, FALSE, FALSE, FALSE)
InferNoFlags == Infer(TRUE, TRUE, FALSE, TRUE, TRUE)
InferNoWrite == Infer(TRUE, TRUE, TRUE, TRUE, FALSE)

\* kernels the tracer is started on
KVers == {<<3, 10>>, <<4, 13>>, <<4, 14>>, <<5, 2>>}
\* values of uid_base (0: the clock read 0)
UidBases == {0, 1, UidLowSpan - 1}
RunFailures == {RunSteps[i] : i \in 1 .. Len(RunSteps)}

(***************************************************************************)
(* The state before running_socket_tracer is called                        *)
(***************************************************************************)
InitKernel ==
    /\ members_offset = [cpu \in CPUS |-> ZeroOffset]
    /\ trace_uid_map = [cpu \in CPUS |-> [socket_id |-> 0, thread_trace_id |-> 0]]
    /\ trace_stats_map = [cpu \in CPUS |-> [socket_map_count |-> 0, trace_map_count |-> 0]]
    /\ socket_info_map = EmptyMap
    /\ trace_map = EmptyMap
    /\ data_buf = [cpu \in CPUS |-> <<>>]
    /\ socket_data = <<>>

\* the worker queues as dispatch_worker creates them: empty rings, counters 0
EmptyQueue == [r |-> <<>>, enqueue_nr |-> 0, enqueue_lost |-> 0, heap_get_faild |-> 0,
               dequeue_nr |-> 0]
InitReader ==
    /\ trace_map_reclaim_count = 0
    /\ queues = [q \in 0 .. (WorkerNr - 1) |-> EmptyQueue]
    /\ heap = <<>>
    /\ reader_pc = <<>>
    /\ events_list = {}

InitHistory ==
    /\ nev = 0
    /\ last = NoEvent
    /\ stream = <<>>
    /\ created = <<>>
    /\ traced = [t \in Threads |-> <<>>]

\* no thread is inside a probed syscall when the probes are attached
InitArgs ==
    /\ active_read_args_map = EmptyMap
    /\ active_write_args_map = EmptyMap
    /\ in_syscall = [t \in Threads |-> <<>>]

\* the traced process holds one connection; only the specification of the
\* descriptor life cycle opens and closes descriptors, the others take the
\* descriptors of their events as given
InitProcess == fd_table = {3}

\* the reader has made no backing allocation
InitLayout == layout = <<>>

\* the controller side before any agent has called it
InitController ==
    /\ gvtap_info = [ready |-> FALSE, group_data_version |-> 0, policy_version |-> 0,
                     registered |-> {}]
    /\ vtap_cache = <<>>
    /\ sync_out = <<>>

Init ==
    /\ kver \in KVers
    /\ cpu_online \in {[cpu \in CPUS |-> TRUE], [cpu \in CPUS |-> cpu # 0]}
    /\ proc_kind = "plain"
    /\ uptime = 0
    /\ trace_map_max = TraceMapEntries
    /\ tracer = <<>>
    /\ hooks = FALSE
    /\ period_events = {}
    /\ adapt_pc = "idle"
    /\ api = [c \in Callers |-> IdleCall]
    /\ run_ret = <<>>
    /\ socket_map_reclaim_count = 0
    /\ bpf_core \in BOOLEAN
    /\ InitKernel
    /\ InitReader
    /\ InitHistory
    /\ InitArgs
    /\ InitController
    /\ InitProcess
    /\ InitLayout

\* the traffic of the whole-tracer specification: one thread, one descriptor
CtlEvents == {Event(<<1, 1>>, 3, dir, MSG_REQUEST, PROTO_L7, TRUE, TRUE) : dir \in Dirs}
CtlInfers == {InferAll, InferNone, InferNoFlags}

Next ==
    \/ \E fail \in RunFailures, uid_base \in UidBases : running_socket_tracer(fail, uid_base)
    \/ \E collect_ok \in BOOLEAN, set_ok \in BOOLEAN, h \in HookResults :
          check_kern_adapt_and_state_update(collect_ok, set_ok, h)
    \/ adapt_mark
    \/ \E op \in {"start", "stop"} : CallEntry("c1", op)
    \/ \E h \in HookResults : CallLocked("c1", h)
    \/ /\ nev < MaxCtlEvents
       /\ \E e \in CtlEvents, cpu \in CPUS : sys_exit_data(e, cpu)
    \/ /\ nev < MaxCtlEvents
       /\ \E cpu \in CPUS, inf \in CtlInfers : sys_enter_close(<<1, 1>>, 3, cpu, inf)

Spec == Init /\ [][Next]_vars

(***************************************************************************)
(* The tracer once it runs: running_socket_tracer returned 0, a CPU        *)
(* learned the offsets, the adaptation check copied them to every CPU and  *)
(* socket_tracer_start attached the probes again.                          *)
(***************************************************************************)
StartedCall == [op |-> "start", pc |-> "done", seen |-> TRACER_STOP, ret |-> 0,
                hook |-> <<0>>, reclaimed |-> FALSE,
                from |-> TRACER_STOP, to |-> TRACER_RUNNING]
ReadyOffset == [files |-> 1, flags |-> 1, copied_seq |-> 1, write_seq |-> 1, ready |-> 1]

InitRunningWith(kind, uid_base, up, max_trace_entries) ==
    /\ kver = <<4, 14>>
    /\ cpu_online = [cpu \in CPUS |-> TRUE]
    /\ proc_kind = kind
    /\ uptime = up
    /\ trace_map_max = max_trace_entries
    /\ tracer = <<[state |-> TRACER_RUNNING, adapt_success |-> TRUE]>>
    /\ hooks = TRUE
    /\ period_events = {CHECK_MAP_EXCEEDED}
    /\ adapt_pc = "idle"
    /\ api = [c \in Callers |-> IF c = "c1" THEN StartedCall ELSE IdleCall]
    /\ run_ret = <<0>>
    /\ socket_map_reclaim_count = 0
    /\ bpf_core = FALSE
    /\ members_offset = [cpu \in CPUS |-> ReadyOffset]
    /\ trace_uid_map = [cpu \in CPUS |-> [socket_id |-> uid_seed(cpu, uid_base),
                                          thread_trace_id |-> uid_seed(cpu, uid_base)]]
    /\ trace_stats_map = [cpu \in CPUS |-> [socket_map_count |-> 0, trace_map_count |-> 0]]
    /\ socket_info_map = EmptyMap
    /\ trace_map = EmptyMap
    /\ data_buf = [cpu \in CPUS |-> <<>>]
    /\ socket_data = <<>>
    /\ InitReader
    /\ InitHistory
    /\ InitArgs
    /\ InitController
    /\ InitProcess
    /\ InitLayout

InitRunningAt(kind, uid_base, up) == InitRunningWith(kind, uid_base, up, TraceMapEntries)

InitRunning(kind, uid_base) == InitRunningAt(kind, uid_base, 0)

\* the traffic of the data-plane specification
TraceEvents ==
    {Event(t, fd, dir, msg, PROTO_L7, TRUE, TRUE) :
        t \in Threads, fd \in Fds, dir \in Dirs,
        msg \in {MSG_REQUEST, MSG_RESPONSE, MSG_PRESTORE, MSG_CLEAR}}
    \cup {Event(<<1, 1>>, 3, dir, MSG_RECONFIRM, PROTO_L7, TRUE, TRUE) : dir \in Dirs}
    \cup {Event(<<1, 1>>, fd, dir, MSG_REQUEST, PROTO_L7, FALSE, TRUE) :
             fd \in Fds, dir \in Dirs}
    \cup {Event(<<1, 1>>, 3, T_INGRESS, MSG_UNKNOWN, PROTO_UNKNOWN, TRUE, TRUE),
          Event(<<1, 1>>, 3, T_INGRESS, MSG_REQUEST, PROTO_L7, TRUE, FALSE)}

InitTrace == \E kind \in {"plain", "go"}, uid_base \in UidBases \ {0} :
                 InitRunning(kind, uid_base)

NextTrace ==
    \/ /\ nev < MaxEvents
       /\ \E e \in TraceEvents, cpu \in CPUS : sys_exit_data(e, cpu)
    \/ /\ nev < MaxEvents
       /\ \E fd \in Fds, cpu \in CPUS : sys_enter_close(<<1, 1>>, fd, cpu, InferAll)

TraceSpec == InitTrace /\ [][NextTrace]_vars

\* the traffic of the relay specification: one nginx worker on one CPU
RelayEvents ==
    {Event(<<1, 1>>, fd, dir, msg, PROTO_L7, TRUE, TRUE) :
        fd \in Fds, dir \in Dirs, msg \in {MSG_REQUEST, MSG_RESPONSE}}

InitRelay == InitRunning("nginx", 1)

NextRelay ==
    \/ /\ nev < MaxRelayEvents
       /\ \E e \in RelayEvents : sys_exit_data(e, 0)
    \/ /\ nev < MaxRelayEvents
       /\ sys_exit_socket(<<1, 1>>, 4, 0)

RelaySpec == InitRelay /\ [][NextRelay]_vars

(***************************************************************************)
(* The control plane from the return of a successful                       *)
(* running_socket_tracer: two control threads call start and stop while    *)
(* the periodic thread runs the adaptation check and the probes run.       *)
(***************************************************************************)
InitAttached(kind) ==
    /\ kver = <<4, 14>>
    /\ cpu_online = [cpu \in CPUS |-> TRUE]
    /\ proc_kind = kind
    /\ uptime = 0
    /\ trace_map_max = TraceMapEntries
    /\ tracer = <<[state |-> TRACER_INIT, adapt_success |-> FALSE]>>
    /\ hooks = TRUE
    /\ period_events = {CHECK_MAP_EXCEEDED, CHECK_KERN_ADAPT}
    /\ adapt_pc = "idle"
    /\ api = [c \in Callers |-> IdleCall]
    /\ run_ret = <<0>>
    /\ socket_map_reclaim_count = 0
    /\ bpf_core = FALSE
    /\ members_offset = [cpu \in CPUS |-> ZeroOffset]
    /\ trace_uid_map = [cpu \in CPUS |-> [socket_id |-> uid_seed(cpu, 1),
                                          thread_trace_id |-> uid_seed(cpu, 1)]]
    /\ trace_stats_map = [cpu \in CPUS |-> [socket_map_count |-> 0, trace_map_count |-> 0]]
    /\ socket_info_map = EmptyMap
    /\ trace_map = EmptyMap
    /\ data_buf = [cpu \in CPUS |-> <<>>]
    /\ socket_data = <<>>
    /\ InitReader
    /\ InitHistory
    /\ InitArgs
    /\ InitController
    /\ InitProcess
    /\ InitLayout

InitCtl == InitAttached("plain")

NextCtl ==
    \/ \E collect_ok \in BOOLEAN, set_ok \in BOOLEAN, h \in HookResults :
          check_kern_adapt_and_state_update(collect_ok, set_ok, h)
    \/ adapt_mark
    \/ \E c \in Callers, op \in {"start", "stop"} : CallEntry(c, op)
    \/ \E c \in Callers, h \in HookResults : CallLocked(c, h)
    \/ /\ uptime < MaxTime
       /\ Tick
    \/ /\ nev < MaxCtlEvents
       /\ \E e \in CtlEvents, cpu \in CPUS : sys_exit_data(e, cpu)
    \/ /\ nev < MaxCtlEvents
       /\ \E cpu \in CPUS : sys_enter_close(<<1, 1>>, 3, cpu, InferAll)

CtlSpec == InitCtl /\ [][NextCtl]_vars

(***************************************************************************)
(* The periodic map check while the tracer runs: one thread opens sessions *)
(* on two descriptors, time passes and the check runs.                     *)
(***************************************************************************)
ReclaimEvents ==
    {Event(<<1, 1>>, fd, dir, MSG_REQUEST, PROTO_L7, TRUE, TRUE) : fd \in Fds, dir \in Dirs}

InitReclaim == InitRunning("plain", 1)

NextReclaim ==
    \/ /\ nev < MaxReclaimEvents
       /\ \E e \in ReclaimEvents : sys_exit_data(e, 0)
    \/ /\ nev < MaxReclaimEvents
       /\ \E collect_ok \in BOOLEAN : check_map_exceeded(collect_ok)
    \/ \E secs \in {1, SOCKET_RECLAIM_TIMEOUT_DEF} :
          /\ uptime + secs <= MaxReclaimTime
          /\ Pass(secs)

ReclaimSpec == InitReclaim /\ [][NextReclaim]_vars

\* a step of check_map_exceeded
CheckStep == nev' = nev + 1 /\ last'.kind = "check"

\* the socket-map usage check_map_exceeded computes at symbol.c:981-990
SocketMapUsed(collected) ==
    (IF collected THEN SumCount(trace_stats_map, "socket_map_count", CPUS) ELSE 0)
        - socket_map_reclaim_count

\* the entries of the socket map idle for a number of seconds in Idle
IdleEntries(Idle) ==
    {key \in DOMAIN socket_info_map : (uptime - socket_info_map[key].update_time) \in Idle}

\* one check run deletes exactly the entries of Old and counts them when
\* the usage reached the threshold, and deletes nothing otherwise
ReclaimsExactly(Old) ==
    LET used == SocketMapUsed(last'.collect_ok)
    IN IF used < 0 \/ used >= SocketMapMaxReclaim
       THEN /\ DOMAIN socket_info_map' = (DOMAIN socket_info_map) \ Old
            /\ \A key \in DOMAIN socket_info_map' :
                   socket_info_map'[key] = socket_info_map[key]
            /\ socket_map_reclaim_count' = socket_map_reclaim_count + Cardinality(Old)
       ELSE /\ socket_info_map' = socket_info_map
            /\ socket_map_reclaim_count' = socket_map_reclaim_count

\* C12 as stated: when the usage reaches socket_map_max_reclaim, one check
\* run deletes exactly the entries idle for 10 or more seconds and adds their
\* number to the reclaim count; below the threshold it deletes nothing.
C12_ReclaimsIdleTenOrMore ==
    [][CheckStep => ReclaimsExactly(IdleEntries(SOCKET_RECLAIM_TIMEOUT_DEF .. MaxReclaimTime + 1))]_vars

\* C12 amended: when the usage reaches socket_map_max_reclaim, one check run
\* deletes exactly the entries idle for more than 10 seconds (an entry idle
\* for exactly 10 seconds is kept) and adds their number to the reclaim
\* count; below the threshold it deletes nothing.
C12_ReclaimsIdleOverTen ==
    [][CheckStep => ReclaimsExactly(IdleEntries(SOCKET_RECLAIM_TIMEOUT_DEF + 1 .. MaxReclaimTime + 1))]_vars

\* a check that found the usage at the threshold has deleted an entry and
\* kept one idle for exactly 10 seconds
C12_Witness ==
    /\ last.kind = "check" /\ last.collect_ok /\ last.socks
    /\ last.socket_map_used >= SocketMapMaxReclaim
    /\ socket_map_reclaim_count = 1
    /\ IdleEntries({SOCKET_RECLAIM_TIMEOUT_DEF}) # {}

(***************************************************************************)
(* The record pipeline while the tracer runs, one second after boot: one   *)
(* thread reads and writes on two descriptors on any CPU, the periodic     *)
(* tick flushes the staging buffers and the reader moves the buffers of    *)
(* the perf channel to the worker queues.                                  *)
(***************************************************************************)
PipeEvents ==
    {Event(<<1, 1>>, fd, T_INGRESS, msg, PROTO_L7, TRUE, TRUE) :
        fd \in Fds, msg \in {MSG_REQUEST, MSG_RESPONSE, MSG_PRESTORE}}
    \cup {Event(<<1, 1>>, fd, T_EGRESS, MSG_REQUEST, PROTO_L7, TRUE, TRUE) : fd \in Fds}

\* the free slots ring_sp_enqueue_burst can find
RingRooms == {0, 1, MAX_PKT_BURST}

InitPipe == InitRunningAt("plain", 1, 1)

NextPipe ==
    \/ /\ nev < MaxPipeEvents
       /\ \E e \in PipeEvents, cpu \in CPUS : sys_exit_data(e, cpu)
    \/ \E cpu \in CPUS : sys_enter_getppid(cpu)
    \/ \E cpu \in CPUS, malloc_ok \in BOOLEAN, room \in RingRooms :
          reader_raw_cb(cpu, malloc_ok, room)

PipeSpec == InitPipe /\ [][NextPipe]_vars

(***************************************************************************)
(* Scenario S6: one thread writes back to back on one socket on CPU 0      *)
(* while the periodic tick runs there.  The ticker calls getppid on the    *)
(* CPU every second: a second ends right after a tick.                     *)
(***************************************************************************)
BurstEvent == Event(<<1, 1>>, 3, T_EGRESS, MSG_REQUEST, PROTO_L7, TRUE, TRUE)

TickedThisSecond == last.kind = "getppid"

InitBurst == InitRunningAt("plain", 1, 1)

NextBurst ==
    \/ /\ nev < MaxBurstEvents
       /\ sys_exit_data(BurstEvent, 0)
    \/ /\ Len(socket_data) < MaxFlushes
       /\ sys_enter_getppid(0)
    \/ /\ uptime < MaxBurstTime
       /\ TickedThisSecond
       /\ Pass(1)

BurstSpec == InitBurst /\ [][NextBurst]_vars

(***************************************************************************)
(* The reader and the workers while the tracer runs: a thread writes on    *)
(* two descriptors on CPU 0, processes start there, the tick flushes the   *)
(* staging buffer, the reader moves what the perf channel holds to the     *)
(* worker queues and the workers consume the queues.                       *)
(***************************************************************************)
QueueEvents == {Event(<<1, 1>>, fd, T_EGRESS, MSG_REQUEST, PROTO_L7, TRUE, TRUE) : fd \in Fds}

\* event types the agent registers a handler for (0: not an extra event type)
EventTypes == {0, EVENT_TYPE_PROC_EXEC}

InitQueue == InitRunningAt("plain", 1, 1)

NextQueue ==
    \/ /\ nev < MaxQueueEvents
       /\ \E e \in QueueEvents : sys_exit_data(e, 0)
    \/ /\ nev < MaxQueueEvents
       /\ proc_event(0, EVENT_TYPE_PROC_EXEC)
    \/ /\ data_buf[0] # <<>>
       /\ sys_enter_getppid(0)
    \/ /\ nev = 0
       /\ \E type \in EventTypes, fn \in BOOLEAN, calloc_ok \in BOOLEAN :
             register_event_handle(type, fn, calloc_ok)
    \/ \E malloc_ok \in BOOLEAN, room \in RingRooms, junk \in {0, 1} :
          reader_raw_cb_enqueue(0, malloc_ok, room, junk)
    \/ reader_raw_cb_mark
    \/ \E q \in DOMAIN queues : worker_consume(q)

QueueSpec == InitQueue /\ [][NextQueue]_vars

(***************************************************************************)
(* A Go process while the tracer runs: the process is identified as Go     *)
(* before its first event or between two of them; two threads read and     *)
(* write on two descriptors and close them.                                *)
(***************************************************************************)
GoEvents ==
    {Event(t, fd, dir, msg, PROTO_L7, TRUE, TRUE) :
        t \in Threads, fd \in Fds, dir \in Dirs,
        msg \in {MSG_REQUEST, MSG_RESPONSE, MSG_PRESTORE}}

InitGo == \E kind \in {"plain", "go"} : InitRunning(kind, 1)

NextGo ==
    \/ /\ nev < MaxGoEvents
       /\ \E e \in GoEvents, cpu \in CPUS : sys_exit_data(e, cpu)
    \/ /\ nev < MaxGoEvents
       /\ \E fd \in Fds, cpu \in CPUS : sys_enter_close(<<1, 1>>, fd, cpu, InferAll)
    \/ /\ nev < MaxGoEvents
       /\ \E fd \in Fds, cpu \in CPUS : sys_exit_socket(<<1, 1>>, fd, cpu)
    \/ go_process_exec

GoSpec == InitGo /\ [][NextGo]_vars

\* a probe handler ran for the process while it was identified as Go
GoStep == nev' = nev + 1 /\ get_go_version # 0

LifeEvents ==
    {Event(t, fd, dir, MSG_REQUEST, PROTO_L7, TRUE, TRUE) :
        t \in Threads, fd \in Fds, dir \in Dirs}

InitLife == InitRunningWith("nginx", 1, 0, 1)

NextLife ==
    \/ /\ nev < MaxLifeEvents
       /\ \E e \in LifeEvents : sys_exit_data(e, 0)
    \/ /\ nev < MaxLifeEvents
       /\ sys_exit_socket(<<1, 1>>, 4, 0)

LifeSpec == InitLife /\ [][NextLife]_vars

(***************************************************************************)
(* The ten data syscalls with their entry and exit handlers: two threads   *)
(* of a process whose descriptor 2 may be a socket (a service started      *)
(* with its connection on the standard descriptors) call them with good    *)
(* and bad arguments.                                                      *)
(***************************************************************************)
ExitFds == {-1, 2, 3}
\* what the socket lookup and the inference make of a descriptor: an L7
\* request on a TCP/UDP socket, or no such socket (a file, a terminal)
ExitClasses ==
    {[msg |-> MSG_REQUEST, proto |-> PROTO_L7, copy_ok |-> TRUE, sock |-> sock] :
        sock \in BOOLEAN}
\* the arguments thread t stashed for the syscall it is inside
StashedArgs(t) ==
    LET map == IF is_write(in_syscall[t][1]) THEN active_write_args_map
               ELSE active_read_args_map
    IN IF t \in DOMAIN map THEN <<map[t]>> ELSE <<>>
\* what the syscall of thread t can return: bytes or messages only on a
\* good descriptor with a good buffer
ExitRets(t) ==
    IF StashedArgs(t) # <<>> /\ StashedArgs(t)[1].fd >= 0 /\ StashedArgs(t)[1].buf
    THEN {-1, 0, PayloadLen} ELSE {-1}

InitExit == InitRunningAt("plain", 1, 1)

NextExit ==
    \/ /\ nev < MaxExitEvents
       /\ \E t \in Threads, fn \in Syscalls, fd \in ExitFds, buf \in BOOLEAN, msg \in BOOLEAN :
             sys_enter_syscall(t, fn, fd, buf, msg)
    \/ \E t \in Threads, msg_len \in {0, PayloadLen}, cls \in ExitClasses :
          /\ in_syscall[t] # <<>>
          /\ \E ret \in ExitRets(t) : sys_exit_syscall(t, ret, msg_len, cls, 0)

ExitSpec == InitExit /\ [][NextExit]_vars

(***************************************************************************)
(* Offset inference: the probes are attached and no CPU is ready; a thread *)
(* closes descriptors on which the scans find any part of what they look   *)
(* for, and moves data in between.                                         *)
(***************************************************************************)
Infers ==
    {Infer(files, sk, flags, copied, write) :
        files \in BOOLEAN, sk \in BOOLEAN, flags \in BOOLEAN,
        copied \in BOOLEAN, write \in BOOLEAN}
InferEvent == Event(<<1, 1>>, 3, T_INGRESS, MSG_REQUEST, PROTO_L7, TRUE, TRUE)

InitInfer == InitCtl

NextInfer ==
    \/ /\ nev < MaxInferEvents
       /\ \E cpu \in CPUS, inf \in Infers : sys_enter_close(<<1, 1>>, 3, cpu, inf)
    \/ /\ nev < MaxInferEvents
       /\ \E cpu \in CPUS : sys_exit_data(InferEvent, cpu)

InferSpec == InitInfer /\ [][NextInfer]_vars

\* the four offsets of a CPU are known
AllLearned(off) ==
    off.files # 0 /\ off.flags # 0 /\ off.copied_seq # 0 /\ off.write_seq # 0

\* C29: on each CPU ready is 1 once the four offsets (task files, sock
\* flags, tcp copied_seq, tcp write_seq) are all nonzero, in whatever order
\* and over however many attempts they were learned, and ready is never 1
\* while one of the four is still 0.
C29_ReadyFlip ==
    \A cpu \in CPUS :
        /\ AllLearned(members_offset[cpu]) => members_offset[cpu].ready = 1
        /\ members_offset[cpu].ready = 1 => AllLearned(members_offset[cpu])

(***************************************************************************)
(* Ready gating: the probes are attached to an nginx worker and no CPU is  *)
(* ready.  The worker reads a request, opens sockets, closes descriptors   *)
(* and is ticked, on either CPU.                                           *)
(***************************************************************************)
GateEvent == Event(<<1, 1>>, 3, T_INGRESS, MSG_REQUEST, PROTO_L7, TRUE, TRUE)
GateInfers == {InferAll, InferNone, InferNoFlags}

InitGate == InitAttached("nginx")

NextGate ==
    \/ /\ nev < MaxGateEvents
       /\ \E cpu \in CPUS : sys_exit_data(GateEvent, cpu)
    \/ /\ nev < MaxGateEvents
       /\ \E cpu \in CPUS, inf \in GateInfers : sys_enter_close(<<1, 1>>, 3, cpu, inf)
    \/ /\ nev < MaxGateEvents
       /\ \E cpu \in CPUS : sys_exit_socket(<<1, 1>>, 4, cpu)
    \/ \E cpu \in CPUS : sys_enter_getppid(cpu)

GateSpec == InitGate /\ [][NextGate]_vars

\* a probe handler ran on a CPU whose offsets were not ready when it ran
\* and are not ready after it
NotReadyStep ==
    /\ last' # last
    /\ ~bpf_core
    /\ members_offset[last'.cpu].ready = 0
    /\ members_offset'[last'.cpu].ready = 0
\* no id was allocated and no record was appended or emitted
NoIdNoRecord ==
    /\ trace_uid_map' = trace_uid_map
    /\ data_buf' = data_buf
    /\ socket_data' = socket_data
    /\ stream' = stream
    /\ created' = created
\* what sys_exit_socket leaves for the new descriptor of an nginx thread
\* that holds a TraceInfo with a peer descriptor
ParkedEntry ==
    [ZeroSockInfo EXCEPT !.peer_fd = trace_map[last'.e.t].peer_fd,
                         !.trace_id = trace_map[last'.e.t].thread_trace_id]

\* C30 as stated: on a CPU whose offsets are not ready (non-CO-RE build) no
\* probe handler creates or modifies a SocketInfo or TraceInfo entry,
\* allocates an id or appends a record to the staging buffer; records are
\* appended on a CPU only once its ready is 1.
C30_ReadyGating ==
    [][/\ NotReadyStep =>
             /\ socket_info_map' = socket_info_map
             /\ trace_map' = trace_map
             /\ NoIdNoRecord
       /\ stream' # stream => members_offset[last'.cpu].ready = 1]_vars

\* C30 amended: on a CPU whose offsets are not ready (non-CO-RE build) no
\* probe handler creates or modifies a TraceInfo entry, allocates an id or
\* appends a record, and none but sys_exit_socket creates or modifies a
\* SocketInfo entry; sys_exit_socket, which reads no offset, still leaves
\* for the new descriptor of an nginx thread the entry that parks the
\* thread's trace id; records are appended on a CPU only once its ready is 1.
C30_ReadyGatingButSocket ==
    [][/\ NotReadyStep =>
             /\ trace_map' = trace_map
             /\ NoIdNoRecord
             /\ \/ socket_info_map' = socket_info_map
                \/ /\ last'.kind = "socket"
                   /\ is_nginx
                   /\ last'.e.t \in DOMAIN trace_map
                   /\ socket_info_map' =
                        MapPut(socket_info_map,
                               gen_conn_key_id(Tgid(last'.e.t), last'.e.fd), ParkedEntry)
       /\ stream' # stream => members_offset[last'.cpu].ready = 1]_vars

\* a read on a CPU that is not ready left nothing, after the same read on
\* a ready CPU had made a session and a record
C30_Witness ==
    /\ last.kind = "data"
    /\ last.e.sock
    /\ last.ready = 0
    /\ members_offset[last.cpu].ready = 0
    /\ last.out = <<>>
    /\ ~bpf_core
    /\ Len(stream) = 1
    /\ Len(created) = 1
    /\ \E cpu \in CPUS : members_offset[cpu].ready = 1

(***************************************************************************)
(* Socket classification: one thread moves L7 requests over descriptors    *)
(* of every kind of socket, and of no socket.                              *)
(***************************************************************************)
\* PF_UNIX, PF_INET, PF_INET6, PF_NETLINK
SockFamilies == {PF_UNIX, PF_INET, PF_INET6, 16}
\* SOCK_STREAM, SOCK_DGRAM, SOCK_RAW
SockTypes == {SOCK_STREAM, SOCK_DGRAM, 3}
\* TCP_ESTABLISHED, TCP_SYN_SENT, TCP_CLOSE, TCP_CLOSE_WAIT, TCP_LISTEN
SockStates == {1, 2, 7, 8, 10}
Socks ==
    [skc_family : SockFamilies, skc_ipv6only : {0, 1}, sk_type : SockTypes,
     skc_state : SockStates]
ClassEvents ==
    {SockEvent(<<1, 1>>, 3, dir, MSG_REQUEST, PROTO_L7, sk) :
        dir \in Dirs, sk \in {<<>>} \cup {<<x>> : x \in Socks}}

InitClass == InitRunningAt("plain", 1, 1)

NextClass ==
    /\ nev < MaxClassEvents
    /\ \E e \in ClassEvents : sys_exit_data(e, 0)

ClassSpec == InitClass /\ [][NextClass]_vars

\* a data event on a descriptor that is a socket
ClassStep ==
    nev' = nev + 1 /\ last'.kind = "data" /\ "sk" \in DOMAIN last'.e /\ last'.e.sk # <<>>
\* the socket of the event and what is_tcp_udp_data made of it
EventSock == last'.e.sk[1]
EventCheck == is_tcp_udp_data(EventSock).type
\* UDP, or TCP in ESTABLISHED or CLOSE_WAIT; 1 and 8 are TCP_ESTABLISHED
\* and TCP_CLOSE_WAIT
TypeAndStateFit(sk) ==
    \/ sk.sk_type = SOCK_DGRAM
    \/ sk.sk_type = SOCK_STREAM /\ sk.skc_state \in {1, 8}
CheckFits(sk, check) ==
    check = (IF sk.sk_type = SOCK_DGRAM THEN SOCK_CHECK_TYPE_UDP ELSE SOCK_CHECK_TYPE_TCP_ES)
\* the event left the maps and the buffers as they were
NothingDone == last'.out = <<>> /\ kvars' = kvars /\ stream' = stream /\ created' = created

\* C28 as stated: a socket is accepted if and only if its family is PF_INET,
\* or PF_INET6 and not IPv6-only, and its type is SOCK_DGRAM (UDP) or
\* SOCK_STREAM in state ESTABLISHED or CLOSE_WAIT (TCP); a rejected socket
\* produces no SocketInfo entry and no record.
C28_Classification ==
    [][ClassStep =>
         LET accepted ==
               /\ \/ EventSock.skc_family = PF_INET
                  \/ EventSock.skc_family = PF_INET6 /\ EventSock.skc_ipv6only = 0
               /\ TypeAndStateFit(EventSock)
         IN /\ accepted <=> EventCheck # SOCK_CHECK_TYPE_ERROR
            /\ accepted => CheckFits(EventSock, EventCheck)
            /\ ~accepted => NothingDone]_vars

\* C28 amended: a socket is accepted if and only if its family is PF_INET or
\* PF_INET6 and its type is SOCK_DGRAM (UDP) or SOCK_STREAM in state
\* ESTABLISHED or CLOSE_WAIT (TCP); a PF_INET6 socket that is not IPv6-only
\* is handled as PF_INET and an IPv6-only one as PF_INET6; a rejected socket
\* produces no SocketInfo entry and no record, an accepted one with an L7
\* request produces a record.
C28_ClassificationInet6 ==
    [][ClassStep =>
         LET accepted ==
               /\ EventSock.skc_family \in {PF_INET, PF_INET6}
               /\ TypeAndStateFit(EventSock)
         IN /\ accepted <=> EventCheck # SOCK_CHECK_TYPE_ERROR
            /\ accepted <=> last'.e.sock
            /\ accepted => CheckFits(EventSock, EventCheck)
            /\ accepted =>
                  is_tcp_udp_data(EventSock).skc_family =
                     (IF EventSock.skc_family = PF_INET6 /\ EventSock.skc_ipv6only # 0
                      THEN PF_INET6 ELSE PF_INET)
            /\ ~accepted => NothingDone
            /\ accepted => Len(last'.out) = 1]_vars

\* a request over an IPv6-only UDP socket produced a record after a request
\* on a refused descriptor had produced none
C28_Witness ==
    /\ last.kind = "data"
    /\ "sk" \in DOMAIN last.e
    /\ last.e.sk # <<>>
    /\ last.e.sk[1].skc_family = PF_INET6
    /\ last.e.sk[1].skc_ipv6only = 1
    /\ last.e.sk[1].sk_type = SOCK_DGRAM
    /\ Len(last.out) = 1
    /\ nev = 2
    /\ Len(stream) = 1

\* an exit handler ran
ExitStep == nev' = nev + 1 /\ last'.kind = "data" /\ "fn" \in DOMAIN last'.e
\* the map the exit handler of the step works on, after the step
ArgsMapAfter ==
    IF is_write(last'.e.fn) THEN active_write_args_map' ELSE active_read_args_map'
\* the handler appended a record
RecordAppended == last'.out # <<>>

\* C27 as stated: an exit handler of any of the ten syscalls produces a
\* record only if the stashed descriptor is greater than 2 and the syscall
\* returned more than 0, and after it the thread has no stashed entry.
C27_ExitContract ==
    [][ExitStep =>
         /\ RecordAppended => last'.e.found /\ last'.e.fd > 2 /\ last'.e.ret > 0
         /\ last'.e.t \notin DOMAIN ArgsMapAfter]_vars

\* C27 amended: an exit handler produces a record only if the arguments
\* were stashed, the stashed descriptor is not negative (greater than 2 for
\* read and write) and the syscall returned more than 0; after it the thread
\* has no stashed entry in the map of the handler.
C27_ExitContractReadWrite ==
    [][ExitStep =>
         /\ RecordAppended =>
               /\ last'.e.found
               /\ last'.e.fd >= 0
               /\ last'.e.fn \in {"read", "write"} => last'.e.fd > 2
               /\ last'.e.ret > 0
         /\ last'.e.t \notin DOMAIN ArgsMapAfter
         /\ in_syscall'[last'.e.t] = <<>>]_vars

\* a write on descriptor 3 produced a record and a write on descriptor 2,
\* a socket, was skipped; neither left a stashed entry
C27_Witness ==
    /\ last.kind = "data"
    /\ "fn" \in DOMAIN last.e
    /\ last.e.fn = "write"
    /\ last.e.fd = 2
    /\ last.e.sock
    /\ last.e.ret > 0
    /\ last.out = <<>>
    /\ Len(stream) = 1
    /\ DOMAIN socket_info_map = {gen_conn_key_id(1, 3)}
    /\ active_write_args_map = EmptyMap
    /\ active_read_args_map = EmptyMap

\* a data event that reached the trace engine
EngineStep == nev' = nev + 1 /\ last'.kind = "data" /\ last'.engine
\* the event left an entry for its thread that holds the id of its record
EntryWithRecordId ==
    /\ last'.e.t \in DOMAIN trace_map'
    /\ \A i \in 1 .. Len(last'.out) :
           trace_map'[last'.e.t].thread_trace_id = last'.out[i].thread_trace_id
\* the event left no entry for its thread
NoEntry == last'.e.t \notin DOMAIN trace_map'
\* the entries of the other threads are as they were
OtherThreadsKept ==
    \A t \in Threads \ {last'.e.t} :
        /\ (t \in DOMAIN trace_map') = (t \in DOMAIN trace_map)
        /\ t \in DOMAIN trace_map => trace_map'[t] = trace_map[t]
\* the trace id parked in the entry the event's socket had (0: none)
ParkedId == IF last'.sock = <<>> THEN 0 ELSE last'.sock[1].trace_id

\* C24 as stated: an ingress event handled by the trace engine leaves one
\* entry for the thread, holding the id of the event's record; an egress
\* event leaves no entry for the thread; an egress event of a thread with no
\* TraceInfo is emitted with thread trace id 0.
C24_Lifecycle ==
    [][EngineStep =>
          IF last'.e.dir = T_INGRESS THEN EntryWithRecordId
          ELSE /\ NoEntry
               /\ last'.trace = <<>> =>
                      \A i \in 1 .. Len(last'.out) : last'.out[i].thread_trace_id = 0]_vars

\* C24 amended: an ingress event handled by the trace engine leaves one
\* entry for the thread, holding the id of the event's record, unless the
\* thread had none and trace_map is full, and then it leaves none; an egress
\* event leaves no entry for the thread; an egress event of a thread with no
\* TraceInfo is emitted with the trace id parked in the SocketInfo entry of
\* its socket, which is 0 when there is no entry or nothing is parked.  No
\* event changes the entry of another thread.
C24_LifecycleWithParking ==
    [][EngineStep =>
          /\ OtherThreadsKept
          /\ IF last'.e.dir = T_INGRESS
             THEN IF last'.trace # <<>> \/ Cardinality(DOMAIN trace_map) < trace_map_max
                  THEN EntryWithRecordId
                  ELSE NoEntry /\ trace_map' = trace_map
             ELSE /\ NoEntry
                  /\ last'.trace = <<>> =>
                         \A i \in 1 .. Len(last'.out) :
                             last'.out[i].thread_trace_id = ParkedId]_vars

\* an egress event of a thread with no TraceInfo emitted a record with the
\* trace id that was parked in the entry of its socket
C24_Witness ==
    /\ last.kind = "data" /\ last.engine
    /\ last.e.dir = T_EGRESS
    /\ last.trace = <<>>
    /\ last.sock # <<>>
    /\ last.sock[1].trace_id # 0
    /\ Len(last.out) = 1
    /\ last.out[1].thread_trace_id = last.sock[1].trace_id
    /\ last.e.t \notin DOMAIN trace_map

\* the records of block b in the rings, as <<queue, place>>
RecordsOf(b) ==
    UNION {{<<q, j>> : j \in {i \in 1 .. Len(queues[q].r) : queues[q].r[i].free_ptr = b}} :
              q \in DOMAIN queues}
\* a worker has taken the record
Consumed(x) == x[2] <= queues[x[1]].dequeue_nr
\* the record of RecordsOf(b) enqueued last
LastOf(b) == CHOOSE x \in RecordsOf(b) : \A y \in RecordsOf(b) : y[2] <= x[2]
\* the blocks the reader allocated for staging buffers
BurstBlocks == {b \in 1 .. Len(heap) : heap[b].kind = "burst"}
\* the reader has returned from the call that allocated block b
ReaderDone(b) == reader_pc = <<>> \/ reader_pc[1].free_ptr # b

\* C21 (1): the reader frees the block of a staging buffer if and only if
\* none of the buffer's records entered the ring; once the reader has
\* returned, the last record enqueued has is_last = 1 and every other record
\* of the block is_last = 0; the block is never released twice and never
\* while one of its enqueued records is unconsumed.
C21_ReaderSide ==
    \A b \in BurstBlocks :
        /\ (heap[b].freed_by = <<"reader">>) <=> (RecordsOf(b) = {})
        /\ Len(heap[b].freed_by) <= 1
        /\ (RecordsOf(b) # {} /\ ReaderDone(b)) =>
               \A x \in RecordsOf(b) :
                   queues[x[1]].r[x[2]].is_last = (IF x = LastOf(b) THEN 1 ELSE 0)
        /\ (RecordsOf(b) # {} /\ heap[b].freed_by # <<>>) =>
               \A x \in RecordsOf(b) : Consumed(x)

\* C21: (1), and once the reader has returned, a block whose records entered
\* the ring and whose last record enqueued a worker has consumed is released,
\* by the worker.
C21_BlockRelease ==
    /\ C21_ReaderSide
    /\ \A b \in BurstBlocks :
           (RecordsOf(b) # {} /\ ReaderDone(b) /\ Consumed(LastOf(b)))
               => heap[b].freed_by = <<"worker">>

\* the reader has returned from its last call and no probe ran since
ReaderReturned == last.kind = "reader" /\ reader_pc = <<>>
\* what the last reader call added to counter f of queue q
Grown(q, f) == queues[q][f] - last.before[q][f]
\* the records the last reader call put into the ring of queue q
Taken(q) == Len(queues[q].r) - last.before[q].len
\* the call counted k offered records on queue q0: what entered the ring as
\* enqueue_nr, the rest as enqueue_lost
AccountsFor(q0, k) ==
    /\ Grown(q0, "enqueue_nr") = Taken(q0)
    /\ Grown(q0, "enqueue_lost") = k - Taken(q0)
    /\ Grown(q0, "heap_get_faild") = 0
\* the call counted an allocation failure on queue q0 and enqueued nothing
CountsAllocFailure(q0) ==
    /\ Grown(q0, "heap_get_faild") = 1
    /\ Grown(q0, "enqueue_nr") = 0 /\ Grown(q0, "enqueue_lost") = 0
    /\ Taken(q0) = 0
\* the call left the queues other than q0 alone
OthersKept(q0) ==
    \A q \in DOMAIN queues \ {q0} :
        /\ Taken(q) = 0
        /\ \A f \in {"enqueue_nr", "enqueue_lost", "heap_get_faild"} : Grown(q, f) = 0

\* C22: a reader call for a staging buffer of k records, or for an extra
\* event with a registered handler (k = 1), adds the number of records that
\* entered the ring to enqueue_nr of the selected queue and the number that
\* did not to enqueue_lost, k in all; when the allocation fails it adds 1 to
\* heap_get_faild instead and enqueues nothing.
C22_EnqueueAccounting ==
    ReaderReturned =>
        LET buf == last.buf
            extra == event_type(buf) >= EVENT_TYPE_MIN
            q0 == IF extra THEN dispatch_queue_index(buf.event_type, WorkerNr)
                  ELSE buffer_queue_index(buf)
            k == IF extra THEN 1 ELSE Len(buf.events)
        IN (extra => has_handler(events_list, buf.event_type)) =>
              /\ OthersKept(q0)
              /\ IF last.malloc_ok THEN AccountsFor(q0, k) ELSE CountsAllocFailure(q0)

(***************************************************************************)
(* Properties                                                              *)
(***************************************************************************)
\* the last probe event was a data event that reached the trace engine and
\* whose record was written
Emitted == last.kind = "data" /\ last.engine /\ last.out # <<>>
\* the thread's previous traced event was an ingress REQUEST whose record
\* was written
AfterIngressRequest ==
    /\ last.prev # <<>>
    /\ last.prev[1].dir = T_INGRESS
    /\ last.prev[1].msg = MSG_REQUEST
    /\ last.prev[1].out # <<>>

\* C1's case: a non-Go thread's ingress REQUEST on socket A, then its next
\* traced event, an egress on another socket B
C1_Case ==
    /\ Emitted
    /\ get_go_version = 0
    /\ last.e.dir = T_EGRESS
    /\ AfterIngressRequest
    /\ last.prev[1].fd # last.e.fd
    /\ last.prev[1].sid # last.sid

\* C1: Trace pairing.  When a non-Go thread's ingress REQUEST on socket A is
\* followed by its next traced event being an egress on a different socket
\* B, the two records carry the same nonzero thread trace id and trace_map
\* holds no entry for the thread after the egress.
C1_TracePairing ==
    C1_Case =>
        /\ last.out[1].thread_trace_id = last.prev[1].out[1].thread_trace_id
        /\ last.out[1].thread_trace_id # 0
        /\ last.e.t \notin DOMAIN trace_map

\* the records emitted before the latest event on the session created by
\* creation event born
EarlierOfSession(born) ==
    {i \in 1 .. (Len(stream) - Len(last.out)) : stream[i].born = born}

\* C14's case (scenario S1): a thread's egress REQUEST emitted the first
\* record of a session and the thread's next traced event is the ingress
\* RESPONSE on that session, which nothing touched in between
C14_Case ==
    /\ last.kind = "data"
    /\ last.engine
    /\ last.e.dir = T_INGRESS
    /\ last.e.msg = MSG_RESPONSE
    /\ last.prev # <<>>
    /\ last.prev[1].dir = T_EGRESS
    /\ last.prev[1].msg = MSG_REQUEST
    /\ last.prev[1].fd = last.e.fd
    /\ Len(last.prev[1].out) = 1
    /\ Cardinality(EarlierOfSession(last.prev[1].out[1].born)) = 1
    /\ last.sock # <<>>
    /\ last.sock[1].uid = last.prev[1].sid
    /\ last.sock[1].seq = last.prev[1].out[1].data_seq
    /\ last.sock[1].direction = T_EGRESS
    /\ last.sock[1].msg_type = MSG_REQUEST

\* the records of scenario S1 are two, with one uid and data_seq n and n + 1
C14_TwoRecords ==
    /\ Len(last.out) = 1
    /\ last.out[1].born = last.prev[1].out[1].born
    /\ last.out[1].socket_id = last.prev[1].out[1].socket_id
    /\ last.out[1].data_seq = last.prev[1].out[1].data_seq + 1

\* C14 as stated: in scenario S1 exactly two records are emitted, with the
\* same uid, data_seq n and n + 1, and the same thread trace id.
C14_SameTraceId ==
    C14_Case =>
        /\ C14_TwoRecords
        /\ last.out[1].thread_trace_id = last.prev[1].out[1].thread_trace_id

\* C14 amended: in scenario S1 exactly two records are emitted, with the same
\* uid and data_seq n and n + 1; in a Go process both carry thread trace id
\* 0, in any other process the ingress RESPONSE carries a newly allocated
\* nonzero thread trace id, which TraceInfo keeps and which differs from the
\* one of the egress REQUEST.
C14_FreshTraceIdOnResponse ==
    C14_Case =>
        /\ C14_TwoRecords
        /\ IF get_go_version # 0
           THEN /\ last.out[1].thread_trace_id = 0
                /\ last.prev[1].out[1].thread_trace_id = 0
           ELSE /\ last.out[1].thread_trace_id # 0
                /\ last.out[1].thread_trace_id # last.prev[1].out[1].thread_trace_id
                /\ last.out[1].thread_trace_id = trace_uid_map[last.cpu].thread_trace_id
                /\ trace_map[last.e.t].thread_trace_id = last.out[1].thread_trace_id

\* scenario S1 happened in a process that is not a Go process, the egress
\* REQUEST carrying thread trace id 0
C14_Witness ==
    /\ C14_Case
    /\ get_go_version = 0
    /\ last.prev[1].out[1].thread_trace_id = 0
    /\ last.prev[1].out[1].data_seq = 0
    /\ last.out[1].data_seq = 1

\* C23's case: a thread of a process that is not Go has a TraceInfo entry
\* and its event, classified ingress REQUEST, reaches the trace engine
C23_Step ==
    /\ nev' = nev + 1
    /\ last'.kind = "data"
    /\ last'.engine
    /\ get_go_version = 0
    /\ last'.e.dir = T_INGRESS
    /\ last'.e.msg = MSG_REQUEST
    /\ last'.trace # <<>>

\* the socket of the event has a valid session whose last event was an
\* ingress REQUEST too
C23_SameBurst ==
    /\ last'.sock # <<>>
    /\ last'.sock[1].uid # 0
    /\ last'.sock[1].direction = T_INGRESS
    /\ last'.sock[1].msg_type = MSG_REQUEST

\* the CPU's thread trace id counter before and after the event
TraceIdBefore == trace_uid_map[last'.cpu].thread_trace_id
TraceIdAfter == trace_uid_map'[last'.cpu].thread_trace_id

\* the event reuses the id of TraceInfo: the record carries it, TraceInfo
\* keeps it, no id is allocated, and the seq of a session the socket had is
\* not incremented
C23_Reuses ==
    /\ \A i \in 1 .. Len(last'.out) :
           last'.out[i].thread_trace_id = last'.trace[1].thread_trace_id
    /\ trace_map'[last'.e.t].thread_trace_id = last'.trace[1].thread_trace_id
    /\ TraceIdAfter = TraceIdBefore
    /\ (last'.sock # <<>> /\ last'.sock[1].uid # 0) =>
           /\ socket_info_map'[gen_conn_key_id(Tgid(last'.e.t), last'.e.fd)].seq
                  = last'.sock[1].seq
           /\ \A i \in 1 .. Len(last'.out) : last'.out[i].data_seq = last'.sock[1].seq

\* the event gets the next thread trace id of its CPU, and the seq of a
\* session the socket had is incremented
C23_Allocates ==
    /\ TraceIdAfter = (TraceIdBefore + 1) % UidSpan
    /\ \A i \in 1 .. Len(last'.out) : last'.out[i].thread_trace_id = TraceIdAfter
    /\ trace_map'[last'.e.t].thread_trace_id = TraceIdAfter
    /\ (last'.sock # <<>> /\ last'.sock[1].uid # 0) =>
           socket_info_map'[gen_conn_key_id(Tgid(last'.e.t), last'.e.fd)].seq
               = last'.sock[1].seq + 1

\* C23 as stated: an ingress REQUEST of a non-Go thread that has a TraceInfo
\* entry, on any socket, carries the thread trace id of that TraceInfo, no
\* id is allocated and the session's seq is not incremented.
C23_ReusesOnAnySocket == [][C23_Step => C23_Reuses]_vars

\* C23 amended: an ingress REQUEST of a non-Go thread that has a TraceInfo
\* entry carries the thread trace id of that TraceInfo, with no id allocated
\* and the session's seq kept, when the socket of the event has a valid
\* session whose last event was an ingress REQUEST as well; on any other
\* socket the event gets a newly allocated id and a session the socket has
\* gets its seq incremented.
C23_ReusesOnSameSocketBurst ==
    [][C23_Step => IF C23_SameBurst THEN C23_Reuses ELSE C23_Allocates]_vars

\* a thread's second ingress REQUEST in a row on one socket emitted a record
\* with the id of the first and the seq of the first
C23_Witness ==
    /\ last.kind = "data" /\ last.engine
    /\ last.e.dir = T_INGRESS /\ last.e.msg = MSG_REQUEST
    /\ last.trace # <<>>
    /\ last.sock # <<>> /\ last.sock[1].uid # 0
    /\ last.sock[1].direction = T_INGRESS /\ last.sock[1].msg_type = MSG_REQUEST
    /\ Len(last.out) = 1
    /\ last.out[1].thread_trace_id = last.trace[1].thread_trace_id
    /\ last.out[1].thread_trace_id # 0
    /\ last.out[1].data_seq = last.sock[1].seq

\* the thread's previous traced event was an ingress REQUEST that emitted a
\* record, on a descriptor other than the one of the latest event
AfterIngressRequestElsewhere ==
    /\ last.prev # <<>>
    /\ last.prev[1].dir = T_INGRESS
    /\ last.prev[1].msg = MSG_REQUEST
    /\ last.prev[1].out # <<>>
    /\ last.prev[1].fd # last.e.fd

\* C15's case, second step: in an nginx process socket() returned B after
\* the thread's ingress REQUEST on A
C15_SocketCase ==
    /\ is_nginx
    /\ last.kind = "socket"
    /\ AfterIngressRequestElsewhere

\* C15's case, third step: the thread's egress REQUEST on B arrives on the
\* entry sys_exit_socket made from the TraceInfo the thread still holds
C15_EgressCase ==
    /\ is_nginx
    /\ Emitted
    /\ last.e.dir = T_EGRESS
    /\ last.e.msg = MSG_REQUEST
    /\ AfterIngressRequestElsewhere
    /\ last.sock # <<>>
    /\ last.sock[1].uid = 0
    /\ last.sock[1].peer_fd = last.prev[1].fd
    /\ last.trace # <<>>
    /\ last.trace[1].thread_trace_id = last.sock[1].trace_id

\* C15: nginx relay (scenario S4).  After thread T's ingress REQUEST on A,
\* sys_exit_socket for a new descriptor B # A stores an entry for B with
\* peer_fd = A and the thread trace id T's TraceInfo held at that time; the
\* egress REQUEST T then emits on B carries the same nonzero thread trace id
\* as the ingress REQUEST, and the session created for B records peer_fd = A.
C15_RelayPairing ==
    /\ C15_SocketCase =>
          /\ last.trace # <<>>
          /\ PreSock(last.e.t, last.e.fd) # <<>>
          /\ PreSock(last.e.t, last.e.fd)[1].peer_fd = last.prev[1].fd
          /\ PreSock(last.e.t, last.e.fd)[1].trace_id = last.trace[1].thread_trace_id
          /\ PreSock(last.e.t, last.e.fd)[1].trace_id = last.prev[1].out[1].thread_trace_id
    /\ C15_EgressCase =>
          /\ last.out[1].thread_trace_id = last.prev[1].out[1].thread_trace_id
          /\ last.out[1].thread_trace_id # 0
          /\ PreSock(last.e.t, last.e.fd)[1].uid = last.out[1].socket_id
          /\ PreSock(last.e.t, last.e.fd)[1].peer_fd = last.prev[1].fd

\* the relay happened: the egress REQUEST on descriptor 4 followed socket()
\* and the ingress REQUEST on descriptor 3
C15_Witness ==
    /\ C15_EgressCase
    /\ last.e.fd = 4
    /\ last.prev[1].fd = 3
    /\ last.out[1].thread_trace_id # 0
    /\ Len(stream) = 2

\* the bytes the n-th probe event read, when it is a read classified PRESTORE
PrestoreBytes(n) == [i \in 1 .. 4 |-> n]

\* C16's case, first read: a read classified PRESTORE on a descriptor that
\* has no session yet
C16_PrestoreCase ==
    /\ last.kind = "data"
    /\ last.e.msg = MSG_PRESTORE
    /\ last.e.dir = T_INGRESS
    /\ last.sock = <<>> \/ last.sock[1].uid = 0

\* C16's case, second read: the next read arrives on the entry that holds
\* the stash
C16_NextReadCase ==
    /\ last.kind = "data"
    /\ last.e.dir = T_INGRESS
    /\ last.e.msg \in {MSG_REQUEST, MSG_RESPONSE}
    /\ last.e.copy_ok
    /\ last.sock # <<>>
    /\ last.sock[1].uid = 0
    /\ last.sock[1].prev_data_len = 4

\* the records the worker queues were handed, and those of them that carry
\* stashed bytes, each with the record of the kernel stream that holds the
\* same captured bytes
Enqueued == UNION {{queues[q].r[j] : j \in 1 .. Len(queues[q].r)} : q \in DOMAIN queues}
DeliveredWithStash ==
    {x \in Enqueued \X {stream[i] : i \in 1 .. Len(stream)} :
        /\ x[2].data = SubSeq(x[1].cap_data, Len(x[1].cap_data) - Len(x[2].data) + 1,
                               Len(x[1].cap_data))
        /\ x[2].extra_data_count > 0}

\* C16: Length-prefix prestore (scenario S3).  A first read classified
\* PRESTORE emits no record and stashes its 4 bytes in the SocketInfo of the
\* descriptor; the next read there emits exactly one record, the first of its
\* session with data_seq 0, carrying the stashed bytes; the reader hands it
\* on with cap_data = the 4 stashed bytes followed by the captured bytes,
\* cap_len = data_len + 4 and cap_seq = that data_seq.
C16_Prestore ==
    /\ C16_PrestoreCase =>
          /\ last.out = <<>>
          /\ PreSock(last.e.t, last.e.fd) # <<>>
          /\ PreSock(last.e.t, last.e.fd)[1].prev_data = PrestoreBytes(nev)
          /\ PreSock(last.e.t, last.e.fd)[1].prev_data_len = 4
    /\ C16_NextReadCase =>
          /\ Len(last.out) = 1
          /\ last.out[1].extra_data = last.sock[1].prev_data
          /\ last.out[1].extra_data_count = 4
          /\ last.out[1].data_seq = 0
          /\ EarlierOfSession(last.out[1].born) = {}
          /\ PreSock(last.e.t, last.e.fd)[1].prev_data_len = 0
    /\ \A x \in DeliveredWithStash :
          /\ x[1].cap_data = x[2].extra_data \o x[2].data
          /\ x[1].cap_len = x[2].data_len + 4
          /\ x[1].cap_seq = x[2].data_seq
          /\ x[1].socket_id = x[2].socket_id

\* a worker queue holds the record of the read that followed a PRESTORE read
\* on descriptor 3: the 4 bytes of the first event, then those of the second
C16_Witness ==
    \E q \in DOMAIN queues :
        /\ Len(queues[q].r) = 1
        /\ queues[q].r[1].cap_data = PrestoreBytes(1) \o [i \in 1 .. PayloadLen |-> 2]
        /\ queues[q].r[1].cap_len = PayloadLen + 4
        /\ queues[q].r[1].cap_seq = 0
        /\ Len(stream) = 1

\* a data event classified msg reached data_submit
SpecialStep(msg) ==
    /\ nev' = nev + 1
    /\ last'.kind = "data"
    /\ last'.e.msg = msg
    /\ last'.e.sock
    /\ last'.ready = 1
\* the conn_key of the event and the entry it has afterwards
EventKey == gen_conn_key_id(Tgid(last'.e.t), last'.e.fd)
EntryAfter == socket_info_map'[EventKey]
\* the socket of the event had a valid session when the event arrived
HadSession == last'.sock # <<>> /\ last'.sock[1].uid # 0
\* what the event added to the used-entry counter of its CPU
UsedGrowth ==
    trace_stats_map'[last'.cpu].socket_map_count - trace_stats_map[last'.cpu].socket_map_count
\* no record is appended and the trace engine's state is as it was
NoRecordNoTrace ==
    /\ last'.out = <<>>
    /\ data_buf' = data_buf /\ socket_data' = socket_data /\ stream' = stream
    /\ trace_map' = trace_map
    /\ \A cpu \in CPUS :
           /\ trace_uid_map'[cpu].thread_trace_id = trace_uid_map[cpu].thread_trace_id
           /\ trace_stats_map'[cpu].trace_map_count = trace_stats_map[cpu].trace_map_count
\* the entry of the event holds the 4 bytes read and is no valid session
Stashed ==
    /\ EventKey \in DOMAIN socket_info_map'
    /\ EntryAfter.prev_data = PrestoreBytes(nev')
    /\ EntryAfter.prev_data_len = 4
    /\ EntryAfter.uid = 0
\* the session of the event's socket is as it was
SessionKept ==
    /\ EventKey \in DOMAIN socket_info_map'
    /\ EntryAfter = last'.sock[1]
    /\ UsedGrowth = 0
\* CLEAR: no entry afterwards, and the used-entry counter decremented if
\* and only if there was one
Cleared ==
    /\ EventKey \notin DOMAIN socket_info_map'
    /\ UsedGrowth = (IF last'.sock # <<>> THEN -1 ELSE 0)
    /\ \A key \in DOMAIN socket_info_map' : socket_info_map'[key] = socket_info_map[key]

CloseStep ==
    /\ nev' = nev + 1
    /\ last'.kind = "close"
    /\ members_offset'[last'.cpu].ready = 1

\* a data event that finds no entry for its descriptor and emits a record
FreshStep ==
    /\ nev' = nev + 1
    /\ last'.kind = "data"
    /\ last'.sock = <<>>
    /\ last'.out # <<>>

\* C17: Close eviction (scenario S5).  sys_enter_close for a socket descriptor
\* on a CPU whose offsets are ready leaves no entry for the descriptor's
\* conn_key and changes no other entry and no user-space reclaim counter; an
\* event that then finds no entry starts a session with a uid no session had
\* before.
C17_CloseEviction ==
    [][/\ CloseStep =>
             LET conn_key == gen_conn_key_id(Tgid(last'.e.t), last'.e.fd)
             IN /\ DOMAIN socket_info_map' = (DOMAIN socket_info_map) \ {conn_key}
                /\ \A key \in DOMAIN socket_info_map' :
                       socket_info_map'[key] = socket_info_map[key]
                /\ socket_map_reclaim_count' = socket_map_reclaim_count
                /\ trace_map_reclaim_count' = trace_map_reclaim_count
       /\ FreshStep =>
             /\ \A i \in 1 .. Len(created) : created[i].uid # last'.out[1].socket_id
             /\ \A i \in 1 .. Len(stream) : stream[i].socket_id # last'.out[1].socket_id
             /\ Len(created') = Len(created) + 1
             /\ created'[Len(created')].uid = last'.out[1].socket_id
             /\ socket_info_map'[gen_conn_key_id(Tgid(last'.e.t), last'.e.fd)].uid
                   = last'.out[1].socket_id
             /\ last'.out[1].data_seq = 0]_vars

\* close() of descriptor 3 removed the entry of its session and kept the
\* entry of the session on descriptor 4
C17_Witness ==
    /\ last.kind = "close"
    /\ last.e.fd = 3
    /\ last.sock # <<>>
    /\ last.sock[1].uid # 0
    /\ PreSock(last.e.t, 3) = <<>>
    /\ PreSock(last.e.t, 4) # <<>>
    /\ socket_map_reclaim_count = 0

\* a probe handler appended a record on the CPU it ran on
AppendStep == nev' = nev + 1 /\ last'.kind = "data" /\ last'.out # <<>>

\* a periodic tick ran on a CPU
TickStep == last'.kind = "getppid" /\ nev' = nev /\ uptime' = uptime

\* C18: Burst flush (scenario S6).  On one CPU records are appended to the
\* staging buffer in arrival order; the append that makes events_num reach
\* 16 outputs the buffer once, with those 16 records in order, and empties
\* it, so that between handler runs 0 <= events_num <= 15; a record left
\* pending is output by the next periodic tick on that CPU, which with a
\* tick every second is within at most 1 s.
C18_BurstFlush ==
    /\ [][/\ AppendStep =>
                LET cpu == last'.cpu
                    events == Append(data_buf[cpu], last'.out[1])
                IN IF Len(events) = 16
                   THEN /\ socket_data' =
                              Append(socket_data, [cpu |-> cpu, events |-> events])
                        /\ data_buf'[cpu] = <<>>
                   ELSE /\ socket_data' = socket_data
                        /\ data_buf'[cpu] = events
          /\ TickStep =>
                LET cpu == last'.cpu
                IN /\ data_buf'[cpu] = <<>>
                   /\ socket_data' =
                         IF data_buf[cpu] = <<>> THEN socket_data
                         ELSE Append(socket_data, [cpu |-> cpu, events |-> data_buf[cpu]])
                   /\ \A other \in CPUS \ {cpu} : data_buf'[other] = data_buf[other]]_vars
    /\ [](\A cpu \in CPUS :
             /\ Len(data_buf[cpu]) <= 15
             /\ \A i \in 1 .. Len(data_buf[cpu]) :
                    uptime - data_buf[cpu][i].timestamp <= 1)

\* 17 writes: the first 16 left in one perf output, the 17th stayed behind
\* and the next tick output it alone
C18_Witness ==
    /\ Len(stream) = 17
    /\ Len(socket_data) = 2
    /\ socket_data[1].events = SubSeq(stream, 1, 16)
    /\ socket_data[2].events = <<stream[17]>>
    /\ data_buf[0] = <<>>
    /\ last.kind = "getppid"

\* C19: Sharding.  Every record is enqueued to the worker queue with index
\* hash(record.socket_id) mod worker_count, so all the records of a session
\* are in one and the same worker queue.
C19_Sharding ==
    /\ \A q \in DOMAIN queues : \A j \in 1 .. Len(queues[q].r) :
          dispatch_queue_index(queues[q].r[j].socket_id, WorkerNr) = q
    /\ \A q1, q2 \in DOMAIN queues :
          \A j1 \in 1 .. Len(queues[q1].r), j2 \in 1 .. Len(queues[q2].r) :
             queues[q1].r[j1].socket_id = queues[q2].r[j2].socket_id => q1 = q2

\* the position in the order of the probe events of the event whose bytes
\* the enqueued record x carries
Produced(x) == x.cap_data[Len(x.cap_data)]

\* C20: Per-session ordering end-to-end.  For every session, the records a
\* worker queue holds are in the order in which the kernel handlers produced
\* them, wherever the session's syscalls ran and however the per-CPU buffers
\* were flushed and read.
C20_SessionOrder ==
    \A q \in DOMAIN queues : \A j1, j2 \in 1 .. Len(queues[q].r) :
        (j1 < j2 /\ queues[q].r[j1].socket_id = queues[q].r[j2].socket_id)
            => Produced(queues[q].r[j1]) < Produced(queues[q].r[j2])

\* C2's case: a thread's ingress REQUEST on socket A, then its egress
\* RESPONSE on the same socket A, the uid of A being the one TraceInfo holds
C2_Case ==
    /\ Emitted
    /\ last.e.dir = T_EGRESS
    /\ last.e.msg = MSG_RESPONSE
    /\ AfterIngressRequest
    /\ last.prev[1].fd = last.e.fd
    /\ last.trace # <<>>
    /\ last.sock # <<>>
    /\ last.sock[1].uid # 0
    /\ last.trace[1].socket_id = last.sock[1].uid

\* C2 as stated: Same-socket non-pairing.  The egress RESPONSE that follows
\* the thread's ingress REQUEST on the same socket carries thread trace id 0
\* and the thread's TraceInfo entry is deleted.
C2_SameSocketZero ==
    C2_Case =>
        /\ last.out[1].thread_trace_id = 0
        /\ last.e.t \notin DOMAIN trace_map

\* C2 amended: the egress RESPONSE that follows the thread's ingress REQUEST
\* on the same socket carries the trace id parked in that socket's own
\* SocketInfo entry (0 when none is parked), the parked id is cleared, and
\* the thread's TraceInfo entry is deleted.
C2_SameSocketParked ==
    C2_Case =>
        /\ last.out[1].thread_trace_id = last.sock[1].trace_id
        /\ socket_info_map[gen_conn_key_id(Tgid(last.e.t), last.e.fd)].trace_id = 0
        /\ last.e.t \notin DOMAIN trace_map

\* a relay parked a trace id in socket A before the same-socket pair
C2_Witness == C2_Case /\ last.sock[1].trace_id # 0

\* the records of stream before j that carry j's uid
SameUidBefore(j) == {i \in 1 .. (j - 1) : stream[i].socket_id = stream[j].socket_id}
Latest(S) == CHOOSE i \in S : \A j \in S : j <= i

\* C3: Per-session sequence monotonicity.  For every uid, each record's
\* data_seq is strictly greater than that of the previous record with the
\* same uid, or equal to it only when the two records agree in
\* (direction, msg_type).
C3_SeqMonotonic ==
    \A j \in 1 .. Len(stream) :
        SameUidBefore(j) # {} =>
            LET i == Latest(SameUidBefore(j))
            IN \/ stream[j].data_seq > stream[i].data_seq
               \/ /\ stream[j].data_seq = stream[i].data_seq
                  /\ stream[j].direction = stream[i].direction
                  /\ stream[j].msg_type = stream[i].msg_type

\* one session emitted a fragment pair (equal data_seq) and then a record
\* with a greater data_seq
C3_Witness ==
    /\ Len(stream) = 3
    /\ stream[1].socket_id = stream[2].socket_id
    /\ stream[2].socket_id = stream[3].socket_id
    /\ stream[1].data_seq = stream[2].data_seq
    /\ stream[3].data_seq > stream[2].data_seq

\* C4: Unique uid.  Sessions created by distinct creation events, on the
\* same or on different CPUs, have distinct uids; two records carry the same
\* uid only if they belong to the same session; every SocketInfo entry
\* carries the uid its creation event was given.
C4_UniqueUid ==
    run_ret = <<0>> =>
        /\ \A i, j \in 1 .. Len(created) : i # j => created[i].uid # created[j].uid
        /\ \A i, j \in 1 .. Len(stream) :
              stream[i].socket_id = stream[j].socket_id => stream[i].born = stream[j].born
        /\ \A i \in 1 .. Len(stream) : created[stream[i].born].uid = stream[i].socket_id
        /\ \A key \in DOMAIN socket_info_map :
              socket_info_map[key].uid # 0 =>
                  created[socket_info_map[key].born].uid = socket_info_map[key].uid

\* sessions were created on two CPUs and three records were written, two
\* of them by the same session
C4_Witness ==
    /\ Len(created) = 2
    /\ created[1].cpu # created[2].cpu
    /\ Len(stream) = 3
    /\ stream[1].socket_id # stream[2].socket_id
    /\ stream[3].socket_id = stream[1].socket_id

\* a control thread's call returned
Returned(c) == api[c].pc = "done" /\ api[c].op # "none"

\* C5: Tracer state machine.  Under any interleaving of start, stop and the
\* adaptation check the state changes only INIT -> STOP (by the adaptation
\* check), STOP -> RUNNING (by start) and RUNNING -> STOP (by stop); a start
\* or stop called in state INIT returns a negative value and leaves INIT.
C5_StateMachine ==
    [][/\ TracerState' # TracerState =>
             \/ /\ TracerState = TRACER_INIT
                /\ TracerState' = TRACER_STOP
                /\ adapt_pc = "idle"
                /\ adapt_pc' = "mark"
             \/ /\ TracerState = TRACER_STOP
                /\ TracerState' = TRACER_RUNNING
                /\ \E c \in Callers : /\ api[c].op = "start"
                                      /\ api[c].pc = "wait"
                                      /\ api'[c].pc = "done"
             \/ /\ TracerState = TRACER_RUNNING
                /\ TracerState' = TRACER_STOP
                /\ \E c \in Callers : /\ api[c].op = "stop"
                                      /\ api[c].pc = "wait"
                                      /\ api'[c].pc = "done"
       /\ \A c \in Callers :
             (api'[c] # api[c] /\ TracerState = TRACER_INIT) =>
                 /\ api'[c].pc = "done"
                 /\ api'[c].ret < 0
                 /\ TracerState' = TRACER_INIT]_vars

\* a start was refused in INIT, and the tracer then went INIT -> STOP ->
\* RUNNING -> STOP
C5_Witness ==
    /\ TracerState = TRACER_STOP
    /\ Returned("c1")
    /\ api["c1"].seen = TRACER_INIT
    /\ api["c1"].ret = -1
    /\ Returned("c2")
    /\ api["c2"].op = "stop"
    /\ api["c2"].from = TRACER_RUNNING
    /\ api["c2"].to = TRACER_STOP

\* C6: Start and stop are idempotent.  A start called in RUNNING returns 0,
\* attaches nothing and leaves RUNNING; a stop called in STOP returns 0,
\* detaches nothing, deletes no map entry and leaves STOP; a second call in
\* a row (same hook outcome, same second) leaves the state of the first.
C6_Idempotent ==
    /\ \A c \in Callers :
          (Returned(c) /\ api[c].op = "start" /\ api[c].seen = TRACER_RUNNING) =>
              /\ api[c].ret = 0
              /\ api[c].hook = <<>>
              /\ api[c].to = TRACER_RUNNING
    /\ \A c \in Callers :
          (Returned(c) /\ api[c].op = "stop" /\ api[c].seen = TRACER_STOP) =>
              /\ api[c].ret = 0
              /\ api[c].hook = <<>>
              /\ ~api[c].reclaimed
              /\ api[c].to = TRACER_STOP
    /\ \A h \in HookResults :
          /\ socket_tracer_start(socket_tracer_start(CtlState, h).S, h).S
                = socket_tracer_start(CtlState, h).S
          /\ socket_tracer_stop(socket_tracer_stop(CtlState, h).S, h).S
                = socket_tracer_stop(CtlState, h).S

\* a stop returned 0 in STOP while socket_info_map held an entry older than
\* the reclaim of a stop would keep
C6_Witness ==
    /\ TracerState = TRACER_STOP
    /\ \E c \in Callers : /\ Returned(c)
                          /\ api[c].op = "stop"
                          /\ api[c].seen = TRACER_STOP
    /\ \E key \in DOMAIN socket_info_map : uptime - socket_info_map[key].update_time > 0

\* C7 as stated: start and stop return a negative value only in state INIT;
\* called in STOP or RUNNING they return 0.
C7_NegativeOnlyInInit ==
    \A c \in Callers :
        Returned(c) =>
            /\ api[c].ret < 0 => api[c].seen = TRACER_INIT
            /\ api[c].seen \in {TRACER_STOP, TRACER_RUNNING} => api[c].ret = 0

\* C7 amended: start and stop return -1 in state INIT, 0 when the state is
\* already the requested one, and otherwise what tracer_hooks_attach /
\* tracer_hooks_detach returned, which is nonzero when the hook call fails.
C7_NegativeInInitOrHookFailure ==
    \A c \in Callers :
        Returned(c) =>
            api[c].ret = IF api[c].seen = TRACER_INIT THEN -1
                         ELSE IF api[c].hook = <<>> THEN 0
                         ELSE api[c].hook[1]

\* a start called in STOP returned the error of tracer_hooks_attach
C7_Witness ==
    \E c \in Callers :
        /\ Returned(c)
        /\ api[c].op = "start"
        /\ api[c].seen = TRACER_STOP
        /\ api[c].hook = <<-1>>
        /\ api[c].ret = -1

\* the running kernel is older than Linux 4.14
OldKernel == kver[1] < 4 \/ (kver[1] = 4 /\ kver[2] < 14)

\* C8: Capability check.  On a kernel older than 4.14 running_socket_tracer
\* returns a negative value and no tracer is created, no generator seeded,
\* no probe attached and no periodic event registered.
C8_OldKernelRefused ==
    (OldKernel /\ run_ret # <<>>) =>
        /\ run_ret[1] < 0
        /\ tracer = <<>>
        /\ ~hooks
        /\ period_events = {}
        /\ \A cpu \in CPUS : trace_uid_map[cpu].socket_id = 0
        /\ nev = 0

\* running_socket_tracer returned on Linux 4.13
C8_Witness == kver = <<4, 13>> /\ run_ret = <<-22>>

\* an online CPU learned all the offsets
ReadyOnline == \E cpu \in CPUS : cpu_online[cpu] /\ members_offset[cpu].ready = 1
\* the adaptation check ran to its end
AdaptDone == tracer # <<>> /\ tracer[1].adapt_success

\* C9 as stated: once running_socket_tracer succeeded and an online CPU
\* learned the offsets, the tracer state reaches RUNNING.
C9_ReachesRunning ==
    (run_ret = <<0>> /\ ReadyOnline) ~> (TracerState = TRACER_RUNNING)

\* C9 amended: once running_socket_tracer succeeded and an online CPU
\* learned the offsets, the adaptation check completes; it takes the state
\* from INIT to STOP when its detach succeeds and leaves INIT otherwise;
\* the state becomes RUNNING only by a later socket_tracer_start whose
\* attach succeeds.
C9_AdaptConverges ==
    /\ (run_ret = <<0>> /\ ReadyOnline) ~> AdaptDone
    /\ [][/\ (adapt_pc = "idle" /\ adapt_pc' = "mark") =>
                /\ TracerState = TRACER_INIT
                /\ TracerState' = IF hooks' THEN TRACER_INIT ELSE TRACER_STOP
          /\ (TracerState # TRACER_RUNNING /\ TracerState' = TRACER_RUNNING) =>
                \E c \in Callers : /\ api[c].op = "start"
                                   /\ api[c].pc = "wait"
                                   /\ api'[c].hook = <<0>>]_vars

\* the adaptation check completed and nobody called start: the state is STOP
C9_Witness ==
    /\ AdaptDone
    /\ TracerState = TRACER_STOP
    /\ \A c \in Callers : api[c] = IdleCall

\* C10 as stated: while the tracer state is INIT no record is appended to a
\* staging buffer or output to the perf channel.
C10_NoRecordInInit ==
    TracerState = TRACER_INIT =>
        /\ stream = <<>>
        /\ \A cpu \in CPUS : data_buf[cpu] = <<>>
        /\ socket_data = <<>>

\* C10 amended: a record is appended to a CPU's staging buffer only when
\* that CPU's offsets entry is ready (the CO-RE object sets ready itself
\* before it appends), whatever the tracer state is.
C10_NoRecordBeforeReady ==
    /\ \A i \in 1 .. Len(stream) : members_offset[stream[i].cpu].ready = 1
    /\ \A cpu \in CPUS : data_buf[cpu] # <<>> => members_offset[cpu].ready = 1
    /\ (last.kind = "data" /\ last.out # <<>>) => (bpf_core \/ last.ready = 1)

\* a CPU learned the offsets in the kernel and a record was appended while
\* the tracer state was still INIT
C10_Witness ==
    /\ ~bpf_core
    /\ last.kind = "data"
    /\ last.out # <<>>
    /\ last.state = TRACER_INIT
    /\ TracerState = TRACER_INIT

\* no CPU's offsets entry is ready; ready is never reset, so none ever was
NoCpuReady == \A cpu \in CPUS : members_offset[cpu].ready = 0
NoRecordAnywhere ==
    /\ stream = <<>>
    /\ \A cpu \in CPUS : data_buf[cpu] = <<>>
    /\ socket_data = <<>>

\* C11 as stated: Offset inference failure.  If no CPU ever reports ready = 1
\* the tracer stays in state STOP, is_adapt_success stays false and no
\* record flows.
C11_FailureStaysStop ==
    (tracer # <<>> /\ NoCpuReady) =>
        /\ TracerState = TRACER_STOP
        /\ ~tracer[1].adapt_success
        /\ NoRecordAnywhere

\* C11 amended: if no CPU ever reports ready = 1 the tracer stays in state
\* INIT, the state running_socket_tracer created it in, is_adapt_success
\* stays false and no record is appended to a staging buffer or output to
\* the perf channel.
C11_FailureStaysInit ==
    (tracer # <<>> /\ NoCpuReady) =>
        /\ TracerState = TRACER_INIT
        /\ ~tracer[1].adapt_success
        /\ NoRecordAnywhere

\* running_socket_tracer succeeded, no CPU is ready, a start was refused and
\* a data event was handled and dropped
C11_Witness ==
    /\ run_ret = <<0>>
    /\ CHECK_KERN_ADAPT \in period_events
    /\ NoCpuReady
    /\ ~bpf_core
    /\ Returned("c1")
    /\ api["c1"].op = "start"
    /\ api["c1"].ret = -1
    /\ last.kind = "data"
    /\ last.out = <<>>

\* caller c's latest call is a socket_tracer_stop that returned a value of rets
StopReturned(c, rets) == api[c].op = "stop" /\ api[c].pc = "done" /\ api[c].ret \in rets

\* no socket_tracer_start has succeeded since the tracer was last stopped
NoLaterStart == TracerState # TRACER_RUNNING

\* a probe handler appends a record to a buffer or outputs one
ProducesRecord == stream' # stream \/ data_buf' # data_buf \/ socket_data' # socket_data

FullMapStep ==
    /\ nev' = nev + 1
    /\ last'.kind = "data"
    /\ last'.engine
    /\ last'.e.dir = T_INGRESS
    /\ last'.e.t \notin DOMAIN trace_map
    /\ Cardinality(DOMAIN trace_map) >= trace_map_max

\* C33: an event that would create a new TraceInfo entry when the map is
\* full inserts nothing, does not increase the used-entry counter and emits
\* no record for that event.
C33_StrictCapacity ==
    [][FullMapStep =>
         /\ trace_map' = trace_map
         /\ trace_stats_map'[last'.cpu].trace_map_count =
               trace_stats_map[last'.cpu].trace_map_count
         /\ last'.out = <<>>]_vars

\* caller c runs the locked section of its call
LockedStep(c) == api[c].pc = "wait" /\ api'[c].pc = "done"
\* the probes are attached in RUNNING and detached in STOP
StateMatchesProbes ==
    /\ TracerState = TRACER_RUNNING => hooks
    /\ TracerState = TRACER_STOP => ~hooks

\* C34: the state test that decides whether a call attaches or detaches is
\* made under mutex_probes_lock, that is, the state the call tested is the
\* state the tracer is in when the call attaches or detaches; and the state
\* is RUNNING only while the probes are attached and STOP only while they
\* are detached.
C34_Serialized ==
    [][/\ \A c \in Callers : LockedStep(c) => api[c].seen = TracerState
       /\ StateMatchesProbes']_vars

\* the staging buffer of the CPU of the tick, before the tick
TickBuf == data_buf[last'.cpu]
\* one perf output of the whole buffer, then events_num = 0 and len = 0
Flushed ==
    /\ socket_data' = Append(socket_data, [cpu |-> last'.cpu, events |-> TickBuf])
    /\ data_buf' = [data_buf EXCEPT ![last'.cpu] = <<>>]

\* C32: a tick on a CPU flushes that CPU's staging buffer if and only if the
\* buffer holds an event and its first event is at least 1 s old, the clock
\* and the timestamp taken in the same unit; otherwise the tick leaves the
\* buffer and the perf channel as they are.
C32_TickFlush ==
    [][TickStep =>
         IF Len(TickBuf) > 0 /\ uptime - TickBuf[1].timestamp >= 1
         THEN Flushed
         ELSE data_buf' = data_buf /\ socket_data' = socket_data]_vars

\* the run of the adaptation check that found a ready CPU, and its last step
AdaptFound == adapt_pc = "idle" /\ adapt_pc' = "mark"
AdaptRetires == adapt_pc = "mark" /\ adapt_pc' = "idle"
\* the online CPUs that report ready, and the first of them
ReadyCpus == {i \in CPUS : cpu_online[i] /\ members_offset[i].ready = 1}
FirstReady == CHOOSE i \in ReadyCpus : \A j \in ReadyCpus : i <= j
\* every CPU got the offsets of the first online CPU that reported ready
Broadcast ==
    /\ ReadyCpus # {}
    /\ members_offset' = [i \in CPUS |-> members_offset[FirstReady]]
\* the check set adapt_success and cancelled itself
Retired ==
    /\ tracer'[1].adapt_success
    /\ CHECK_KERN_ADAPT \notin period_events'
\* a cancelled check stays cancelled and does not run
StaysRetired ==
    CHECK_KERN_ADAPT \notin period_events =>
        CHECK_KERN_ADAPT \notin period_events' /\ adapt_pc' = "idle"
\* user space writes the offset map only in the run that found a ready CPU
OnlyFoundWrites ==
    (members_offset' # members_offset /\ last' = last) => AdaptFound

\* C31 as stated: the run of the adaptation check in which an online CPU
\* reports ready broadcasts that CPU's offsets to all CPUs, attaches the
\* probes and sets the state to RUNNING, then sets adapt_success and cancels
\* itself so that it never runs again.
C31_AdaptStarts ==
    [][/\ AdaptFound => Broadcast /\ hooks' /\ TracerState' = TRACER_RUNNING
       /\ AdaptRetires => Retired
       /\ StaysRetired]_vars

\* C31 amended: the run of the adaptation check in which an online CPU
\* reports ready, and whose map read and write succeed, broadcasts the
\* offsets of the first such CPU to all CPUs and detaches the probes; the
\* state becomes STOP if the detach succeeded and stays as it was otherwise;
\* the check then sets adapt_success and cancels itself, and never runs
\* again.  No other run of the check writes the offset map.
C31_AdaptStops ==
    [][/\ AdaptFound =>
             /\ Broadcast
             /\ \/ ~hooks' /\ TracerState' = TRACER_STOP
                \/ hooks' = hooks /\ TracerState' = TracerState
             /\ TracerState' # TRACER_RUNNING \/ TracerState = TRACER_RUNNING
       /\ AdaptRetires => Retired
       /\ StaysRetired
       /\ OnlyFoundWrites]_vars

\* after one close() had completed the inference on one CPU the check ran:
\* both CPUs are ready, the probes are detached, the state is STOP and the
\* check is cancelled
C31_Witness ==
    /\ nev = 1
    /\ last.kind = "close"
    /\ \A cpu \in CPUS : members_offset[cpu].ready = 1
    /\ ~hooks
    /\ TracerState = TRACER_STOP
    /\ tracer[1].adapt_success
    /\ CHECK_KERN_ADAPT \notin period_events
    /\ adapt_pc = "idle"


(***************************************************************************)
(* Eviction by user space: one thread opens sessions on two descriptors    *)
(* and closes one, time passes, the periodic check runs and a control      *)
(* thread stops and starts the tracer.                                     *)
(***************************************************************************)
EvictEvents ==
    {Event(<<1, 1>>, fd, T_INGRESS, MSG_REQUEST, PROTO_L7, TRUE, TRUE) : fd \in Fds}

InitEvict == InitRunning("plain", 1)

NextEvict ==
    \/ /\ nev < MaxEvictEvents
       /\ \E e \in EvictEvents : sys_exit_data(e, 0)
    \/ /\ nev < MaxEvictEvents
       /\ sys_enter_close(<<1, 1>>, 3, 0, InferAll)
    \/ /\ nev < MaxEvictEvents
       /\ \E collect_ok \in BOOLEAN : check_map_exceeded(collect_ok)
    \/ \E secs \in {1, SOCKET_RECLAIM_TIMEOUT_DEF} :
          /\ uptime + secs <= MaxReclaimTime
          /\ Pass(secs)
    \/ \E op \in {"start", "stop"} : CallEntry("c1", op)
    \/ \E h \in HookResults : CallLocked("c1", h)

EvictSpec == InitEvict /\ [][NextEvict]_vars

\* a step of a kernel probe; every other step is a step of user space
ProbeStep == nev' = nev + 1 /\ last'.kind # "check"

\* the locked section of a socket_tracer_stop call
StopLockedStep == \E c \in Callers : LockedStep(c) /\ api[c].op = "stop"

\* the entries a step removes
GoneSockets == (DOMAIN socket_info_map) \ (DOMAIN socket_info_map')
GoneTraces == (DOMAIN trace_map) \ (DOMAIN trace_map')

\* the trace-map usage check_map_exceeded computes at symbol.c:981-991
TraceMapUsed(collected) ==
    (IF collected THEN SumCount(trace_stats_map, "trace_map_count", CPUS) ELSE 0)
        - trace_map_reclaim_count

\* the usage as check_map_exceeded compares it: a difference below 0 is a
\* large unsigned number
AtThreshold(used, limit) == used < 0 \/ used >= limit

\* entries go only in a periodic check that found the usage at its
\* threshold, and only when idle for more than 10 seconds
PeriodicRule ==
    /\ GoneSockets # {} =>
           /\ CheckStep
           /\ AtThreshold(SocketMapUsed(last'.collect_ok), SocketMapMaxReclaim)
    /\ \A key \in GoneSockets :
           uptime - socket_info_map[key].update_time > SOCKET_RECLAIM_TIMEOUT_DEF
    /\ GoneTraces # {} =>
           /\ CheckStep
           /\ AtThreshold(TraceMapUsed(last'.collect_ok), TraceMapMaxReclaim)
    /\ \A key \in GoneTraces :
           uptime - trace_map[key].update_time > TRACE_RECLAIM_TIMEOUT_DEF

\* the reclaim counters grow by the entries removed, the others are kept
ReclaimCounted ==
    /\ socket_map_reclaim_count' = socket_map_reclaim_count + Cardinality(GoneSockets)
    /\ trace_map_reclaim_count' = trace_map_reclaim_count + Cardinality(GoneTraces)
    /\ \A key \in DOMAIN socket_info_map' :
           key \in DOMAIN socket_info_map /\ socket_info_map'[key] = socket_info_map[key]
    /\ \A key \in DOMAIN trace_map' :
           key \in DOMAIN trace_map /\ trace_map'[key] = trace_map[key]

\* the locked section of socket_tracer_stop empties the socket map of
\* every entry not updated in the current second and keeps the trace map
StopRule ==
    /\ GoneSockets = {key \in DOMAIN socket_info_map :
                          uptime - socket_info_map[key].update_time > 0}
    /\ GoneTraces = {}

\* C35 as stated: user space removes a SocketInfo or TraceInfo entry only
\* in the periodic reclaim, only when the map's usage is at or above its
\* threshold and only if the entry has been idle for more than 10 seconds;
\* no user-space operation, socket_tracer_stop included, deletes an entry
\* that was active within the last 10 seconds, and the reclaim counters
\* grow only by the entries removed under that rule.
C35_OnlyTimedEviction ==
    [][~ProbeStep => PeriodicRule /\ ReclaimCounted]_vars

\* C35 amended: user space removes entries in two places. The periodic
\* reclaim removes an entry only when the map's usage is at or above its
\* threshold and the entry has been idle for more than 10 seconds. The
\* locked section of socket_tracer_stop removes every SocketInfo entry that
\* was not updated within the current second, whatever the usage, and no
\* TraceInfo entry. No other user-space operation removes an entry, and the
\* reclaim counters grow exactly by the entries removed in these two places.
C35_TimedEvictionOrStop ==
    [][~ProbeStep =>
          /\ ReclaimCounted
          /\ IF StopLockedStep THEN StopRule ELSE PeriodicRule]_vars

\* a stop has removed and counted an entry that was updated less than 10
\* seconds before
C35_Witness ==
    /\ uptime < SOCKET_RECLAIM_TIMEOUT_DEF
    /\ api["c1"].op = "stop" /\ api["c1"].pc = "done" /\ api["c1"].reclaimed
    /\ TracerState = TRACER_STOP
    /\ socket_map_reclaim_count = 1
    /\ created # <<>>


(***************************************************************************)
(* The controller's agent-sync service, vtap.go: an agent calls Sync and   *)
(* Push with the data versions it holds.                                   *)
(***************************************************************************)
Versions == 0 .. MaxVersion

VTAP_TYPE_DEDICATED == "DEDICATED"
VTAP_TYPE_OTHER == "OTHER"
STATUS_SUCCESS == "SUCCESS"
STATUS_FAILED == "FAILED"

\* what an agent reports about itself in a SyncRequest
AgentReports ==
    {[revision |-> "r1", boot_time |-> 1, exception |-> 0, ctrl_mac |-> "m1", system |-> "s1"],
     [revision |-> "r2", boot_time |-> 2, exception |-> 1, ctrl_mac |-> "m2", system |-> "s2"]}

\* api.SyncRequest
SyncRequests ==
    {[version_platform_data |-> vp, version_groups |-> vg, version_acls |-> va] @@ rep :
        vp \in Versions, vg \in Versions, va \in Versions, rep \in AgentReports}

\* the requests that open a Push stream: pushResponse reads the acls
\* version of the request and nothing else of what is modelled here
PushRequests ==
    {in \in SyncRequests : /\ in.version_platform_data = 0 /\ in.version_groups = 0
                           /\ in.revision = "r1"}

\* the VTapCache of an agent that has not synchronised yet
NewVTapCache(vtap_type, platform_version, expected) ==
    [vtap_type |-> vtap_type, simple_platform_data_version |-> platform_version,
     expected_revision |-> expected, revision |-> "", boot_time |-> 0,
     exceptions |-> 0, ctrl_mac |-> "m1", system |-> "", synced |-> FALSE,
     controller_sync_flag |-> FALSE,
     push_version_platform_data |-> 0, push_version_groups |-> 0,
     push_version_policy |-> 0]

\* the response without a VTapCache, lines 228-233 and 374-422
NoCacheResponse(status) ==
    [status |-> status, found |-> FALSE, platform_data |-> FALSE, groups |-> FALSE,
     flow_acls |-> FALSE, tap_types |-> FALSE, version_platform_data |-> 0,
     version_groups |-> 0, version_acls |-> 0, revision |-> ""]

\* lines 285-321: what Sync records in the VTapCache
SyncedCache(c, in, versionPlatformData, versionGroups, versionPolicy) ==
    [c EXCEPT
       !.expected_revision = IF c.expected_revision = in.revision THEN "" ELSE @,
       !.boot_time = in.boot_time,
       !.revision = in.revision,
       !.exceptions = in.exception,
       !.synced = TRUE,
       !.system = in.system,
       !.ctrl_mac = IF c.vtap_type # VTAP_TYPE_DEDICATED THEN in.ctrl_mac ELSE @,
       !.controller_sync_flag = TRUE,
       !.push_version_platform_data =
            IF in.version_platform_data # 0 THEN in.version_platform_data
            ELSE versionPlatformData,
       !.push_version_groups =
            IF in.version_groups # 0 THEN in.version_groups ELSE versionGroups,
       !.push_version_policy =
            IF in.version_acls # 0 THEN in.version_groups ELSE versionPolicy]

\* VTapEvent.Sync, lines 218-372; no_vtap_ok: noVTapResponse finds a
\* configuration for an unknown agent
Sync(in, no_vtap_ok) ==
    /\ IF ~gvtap_info.ready
       THEN /\ sync_out' = <<[op |-> "Sync", in |-> in,
                              out |-> NoCacheResponse(STATUS_FAILED)]>>
            /\ UNCHANGED <<gvtap_info, vtap_cache>>
       ELSE IF vtap_cache = <<>>
       THEN /\ gvtap_info' = [gvtap_info EXCEPT !.registered = @ \cup {in.ctrl_mac}]
            /\ sync_out' = <<[op |-> "Sync", in |-> in,
                              out |-> NoCacheResponse(IF no_vtap_ok THEN STATUS_SUCCESS
                                                      ELSE STATUS_FAILED)]>>
            /\ UNCHANGED vtap_cache
       ELSE LET c == vtap_cache[1]
                versionPlatformData == c.simple_platform_data_version
                versionGroups == gvtap_info.group_data_version
                versionPolicy == gvtap_info.policy_version
                c1 == SyncedCache(c, in, versionPlatformData, versionGroups, versionPolicy)
            IN /\ vtap_cache' = <<c1>>
               /\ sync_out' =
                    <<[op |-> "Sync", in |-> in,
                       out |-> [status |-> STATUS_SUCCESS, found |-> TRUE,
                                platform_data |->
                                    versionPlatformData # in.version_platform_data,
                                groups |-> versionGroups # in.version_groups,
                                flow_acls |-> versionPolicy # in.version_acls,
                                tap_types |-> c1.vtap_type = VTAP_TYPE_DEDICATED,
                                version_platform_data |-> versionPlatformData,
                                version_groups |-> versionGroups,
                                version_acls |-> versionPolicy,
                                revision |-> c1.expected_revision]]>>
               /\ UNCHANGED gvtap_info
    /\ UNCHANGED <<evars, uvars, kvars, hvars, rvars, avars, pvars, lvars>>

\* VTapEvent.pushResponse, lines 447-543: one round of the Push loop
pushResponse(in, no_vtap_ok) ==
    /\ IF ~gvtap_info.ready
       THEN sync_out' = <<[op |-> "Push", in |-> in,
                           out |-> NoCacheResponse(STATUS_FAILED)]>>
       ELSE IF vtap_cache = <<>>
       THEN sync_out' = <<[op |-> "Push", in |-> in,
                           out |-> NoCacheResponse(IF no_vtap_ok THEN STATUS_SUCCESS
                                                   ELSE STATUS_FAILED)]>>
       ELSE LET c == vtap_cache[1]
                versionPlatformData == c.simple_platform_data_version
                versionGroups == gvtap_info.group_data_version
                versionPolicy == gvtap_info.policy_version
            IN sync_out' =
                 <<[op |-> "Push", in |-> in,
                    out |-> [status |-> STATUS_SUCCESS, found |-> TRUE,
                             platform_data |->
                                 versionPlatformData # c.push_version_platform_data,
                             groups |-> versionGroups # c.push_version_groups,
                             flow_acls |-> versionPolicy # in.version_acls,
                             tap_types |-> c.vtap_type = VTAP_TYPE_DEDICATED,
                             version_platform_data |-> versionPlatformData,
                             version_groups |-> versionGroups,
                             version_acls |-> versionPolicy,
                             revision |-> ""]]>>
    /\ UNCHANGED <<evars, uvars, kvars, hvars, rvars, avars, pvars, lvars, gvtap_info, vtap_cache>>

\* the controller with its data versions, and the agent known to it or not
InitSync ==
    /\ kver = <<4, 14>>
    /\ cpu_online = [cpu \in CPUS |-> TRUE]
    /\ proc_kind = "plain"
    /\ uptime = 0
    /\ trace_map_max = TraceMapEntries
    /\ tracer = <<>>
    /\ hooks = FALSE
    /\ period_events = {}
    /\ adapt_pc = "idle"
    /\ api = [c \in Callers |-> IdleCall]
    /\ run_ret = <<>>
    /\ socket_map_reclaim_count = 0
    /\ bpf_core = FALSE
    /\ InitKernel
    /\ InitReader
    /\ InitHistory
    /\ active_read_args_map = EmptyMap
    /\ active_write_args_map = EmptyMap
    /\ in_syscall = [t \in Threads |-> <<>>]
    /\ \E ready \in BOOLEAN, vg \in Versions, vp \in Versions :
          gvtap_info = [ready |-> ready, group_data_version |-> vg,
                        policy_version |-> vp, registered |-> {}]
    /\ vtap_cache \in {<<>>} \cup
          {<<NewVTapCache(type, v, "r2")>> :
              type \in {VTAP_TYPE_DEDICATED, VTAP_TYPE_OTHER}, v \in Versions}
    /\ sync_out = <<>>
    /\ InitProcess
    /\ InitLayout

NextSync ==
    \/ \E in \in SyncRequests, no_vtap_ok \in BOOLEAN : Sync(in, no_vtap_ok)
    \/ \E in \in PushRequests, no_vtap_ok \in BOOLEAN : pushResponse(in, no_vtap_ok)

SyncSpec == InitSync /\ [][NextSync]_vars

\* Sync has handled a request of an agent it has a VTapCache for
SyncHandled == sync_out'[1].op = "Sync" /\ sync_out'[1].out.found

\* C36: after Sync handles a request whose VersionAcls is not 0, the
\* VTapCache's push policy version is the request's acls version, whatever
\* the request's groups version; with VersionAcls = 0 it is the controller's
\* current policy version.
C36_PushPolicyIsAcls ==
    [][SyncHandled =>
          vtap_cache'[1].push_version_policy =
              IF sync_out'[1].in.version_acls # 0 THEN sync_out'[1].in.version_acls
              ELSE gvtap_info.policy_version]_vars


(***************************************************************************)
(* The life cycle of a descriptor in an nginx worker while the tracer runs *)
(* and is stopped and started: the worker reads on its connection, opens   *)
(* an upstream socket and closes it; the probes see a syscall only while   *)
(* they are attached.                                                      *)
(***************************************************************************)
AcctEvent == Event(<<1, 1>>, 3, T_INGRESS, MSG_REQUEST, PROTO_L7, TRUE, TRUE)

\* socket() returns fd, a descriptor that is not open
socket_syscall(t, fd, cpu) ==
    /\ fd \notin fd_table
    /\ fd_table' = fd_table \cup {fd}
    /\ IF hooks
       THEN /\ nev < MaxAcctEvents
            /\ sys_exit_socket_probe(t, fd, cpu)
       ELSE UNCHANGED <<avars, svars, lvars, evars, uvars, kvars, hvars, rvars>>

\* close(fd) of an open descriptor
close_syscall(t, fd, cpu, inf) ==
    /\ fd \in fd_table
    /\ fd_table' = fd_table \ {fd}
    /\ IF hooks
       THEN /\ nev < MaxAcctEvents
            /\ sys_enter_close_probe(t, fd, cpu, inf)
       ELSE UNCHANGED <<avars, svars, lvars, evars, uvars, kvars, hvars, rvars>>

InitAcct == InitRunning("nginx", 1)

NextAcct ==
    \/ /\ nev < MaxAcctEvents
       /\ AcctEvent.fd \in fd_table
       /\ sys_exit_data(AcctEvent, 0)
    \/ socket_syscall(<<1, 1>>, 4, 0)
    \/ close_syscall(<<1, 1>>, 4, 0, InferAll)
    \/ \E op \in {"start", "stop"} : CallEntry("c1", op)
    \/ \E h \in HookResults : CallLocked("c1", h)
    \/ /\ uptime < MaxTime
       /\ Tick

AcctSpec == InitAcct /\ [][NextAcct]_vars

\* C37: the socket_map_count summed over all CPUs minus the user-space
\* socket reclaim counter is the number of entries in socket_info_map,
\* after any sequence of read/write, close, socket creation, reclaim and
\* stop operations.
C37_UsedEntries ==
    SumCount(trace_stats_map, "socket_map_count", CPUS) - socket_map_reclaim_count
        = Cardinality(DOMAIN socket_info_map)


\* the worker of queue q takes a record out of its ring
DequeueStep(q) == queues'[q].dequeue_nr = queues[q].dequeue_nr + 1

\* the record the worker of queue q takes next is in the ring while the
\* reader has not yet written its head: is_last of a socket-data record
\* (symbol.c:901-903), free_ptr, is_last and fn of an extra event (723-725)
HeadOwed(q) ==
    /\ reader_pc # <<>>
    /\ reader_pc[1].q = q
    /\ reader_pc[1].pos = queues[q].dequeue_nr + 1

\* C38: in every interleaving of the reader with the workers, a worker
\* that dequeues a record finds the record's mem_block_head fully written
\* (free_ptr, fn and the final value of is_last were written before the
\* record became visible in the ring), for socket-data records and for
\* extra events alike.
C38_PublishedHeads ==
    [][\A q \in DOMAIN queues : DequeueStep(q) => ~HeadOwed(q)]_vars


\* C39: in every reachable state adapt_success (is_adapt_success of the
\* stats) is true only if the tracer state is STOP or RUNNING: the
\* adaptation check never retires itself with adapt_success set while the
\* tracer is left in INIT, where start and stop are both refused.
C39_AdaptFlagAndState ==
    (tracer # <<>> /\ tracer[1].adapt_success) =>
        TracerState \in {TRACER_STOP, TRACER_RUNNING}


(***************************************************************************)
(* The bytes reader_raw_cb writes into the backing allocation of a staging *)
(* buffer, symbol.c:806-886.  The structs are declared in headers outside  *)
(* the sources at hand: their sizes are inputs, multiples of 8 that cover  *)
(* every remainder modulo the cache line.  cap_data points behind the      *)
(* cap_data member (line 848), taken as the last member of                 *)
(* struct socket_bpf_data, as the stride of line 885 has it.               *)
(***************************************************************************)
CACHE_LINE_SIZE == 64
CACHE_LINE_ROUNDUP(size) ==
    ((size + CACHE_LINE_SIZE - 1) \div CACHE_LINE_SIZE) * CACHE_LINE_SIZE

\* sizeof(sd->extra_data), a __u32
SizeofExtraData == 4

StructSizes ==
    {[data_offset |-> 64, socket_bpf_data |-> 8 * k, mem_block_head |-> 24] : k \in 10 .. 17}

\* the records of a staging buffer, as far as the reader's copy reads them
AllocRecords ==
    [data_len : 0 .. MaxDataLen, extra_data_count : {0, 1}]
AllocBuffers ==
    UNION {[1 .. n -> AllocRecords] : n \in 1 .. MaxAllocEvents}

RECURSIVE SumDataLen(_, _)
SumDataLen(events, n) ==
    IF n = 0 THEN 0 ELSE events[n].data_len + SumDataLen(events, n - 1)

\* buf->len as the kernel leaves it, socket_trace.c:944
buf_len(sz, events) == Len(events) * sz.data_offset + SumDataLen(events, Len(events))

\* symbol.c:806-812
alloc_len(sz, events) ==
    CACHE_LINE_ROUNDUP(buf_len(sz, events) - sz.data_offset * Len(events)
                       + sz.socket_bpf_data * Len(events)
                       + sz.mem_block_head * Len(events)
                       + SizeofExtraData * Len(events))

\* symbol.c:863-869: the bytes in front of the payload
extra_offset(sd) ==
    IF sd.data_len > 0 /\ sd.extra_data_count > 0 THEN SizeofExtraData ELSE 0

\* symbol.c:885 with 830: from one block head to the next
record_stride(sz, sd) ==
    sz.mem_block_head + sz.socket_bpf_data + sd.data_len + extra_offset(sd)

\* the offset behind the last byte the loop writes for a record that
\* starts at ptr: the head and the record header, and with a payload the
\* extra bytes, the payload and the NUL byte of line 871
record_end(sz, sd, ptr) ==
    LET cap_data == ptr + sz.mem_block_head + sz.socket_bpf_data
    IN IF sd.data_len > 0 THEN cap_data + extra_offset(sd) + sd.data_len + 1
       ELSE cap_data

\* symbol.c:823-886: the largest record_end of the first i records, the
\* first one starting at offset 0
RECURSIVE RecordStart(_, _, _)
RecordStart(sz, events, i) ==
    IF i = 1 THEN 0
    ELSE RecordStart(sz, events, i - 1) + record_stride(sz, events[i - 1])

RECURSIVE WrittenEnd(_, _, _)
WrittenEnd(sz, events, i) ==
    IF i = 0 THEN 0
    ELSE LET e == record_end(sz, events[i], RecordStart(sz, events, i))
             rest == WrittenEnd(sz, events, i - 1)
         IN IF e > rest THEN e ELSE rest

\* reader_raw_cb lays out the records of one staging buffer
reader_layout(sz, events, malloc_ok) ==
    /\ tracer # <<>>
    /\ layout = <<>>
    /\ layout' = <<[sz |-> sz, events |-> events, malloc_ok |-> malloc_ok,
                    alloc_len |-> alloc_len(sz, events),
                    written_end |-> IF malloc_ok THEN WrittenEnd(sz, events, Len(events))
                                    ELSE 0]>>
    /\ UNCHANGED <<avars, svars, pvars, evars, uvars, kvars, hvars, rvars>>

InitAlloc == InitRunning("plain", 1)

NextAlloc ==
    /\ layout = <<>>
    /\ \E sz \in StructSizes, events \in AllocBuffers, malloc_ok \in BOOLEAN :
          reader_layout(sz, events, malloc_ok)

AllocSpec == InitAlloc /\ [][NextAlloc]_vars

\* C40: for every staging buffer and every combination of data_len and
\* extra_data_count of its records, all bytes the reader writes while it
\* rewrites the records (block heads, record headers, the 4 extra bytes,
\* the payload and the NUL byte behind each payload) lie inside the backing
\* allocation of alloc_len bytes.
C40_WritesInsideAllocation ==
    layout # <<>> => layout[1].written_end <= layout[1].alloc_len


\* the control plane with a periodic thread that keeps running the
\* adaptation check and whose map operations succeed in the end
FairSpec ==
    /\ InitCtl
    /\ [][NextCtl]_vars
    /\ WF_vars(\E h \in HookResults : check_kern_adapt_and_state_update(TRUE, TRUE, h))
    /\ WF_vars(adapt_mark)

====
